---- MODULE Spec2Model ----
(***************************************************************************)
(* avx-turbo (intel/PerfSpect, tools/avx-turbo): the synchronized          *)
(* multi-thread measurement engine.                                        *)
(*                                                                         *)
(*   - hot_barrier, the spin barrier (avx-turbo.cpp 346-370)               *)
(*   - test_thread::operator() and run_test, one measurement thread        *)
(*     (avx-turbo.cpp 377-420, 642-661)                                    *)
(*   - the spec loop of main, the orchestrator (avx-turbo.cpp 855-885)     *)
(*   - concurrency / conc_ratio, the interval-overlap analysis             *)
(*     (util.hpp 57-99, 198-221)                                           *)
(*                                                                         *)
(* The specifications of the module:                                       *)
(*   SpecBarrier  a hot_barrier driven through its three methods           *)
(*   Spec         main's spec loop and the threads it spawns               *)
(*   FairSpec     Spec with the fairness of a preemptive scheduler         *)
(*   SpecConc     concurrency and conc_ratio applied to drawn inputs       *)
(*   SpecNested   nested_concurrency and nconc_ratio applied to inputs     *)
(*   SpecTrial    the timed passes of run_test with their timestamps       *)
(*   SpecDirty    SpecTrial's thread with the dirty_it hooks enabled       *)
(*   SpecMain     main from its arguments to its exit, a thread per step   *)
(*   SpecClock    the static locals of RdtscClock, called by any thread    *)
(*   SpecTscFreq  get_tsc_freq and get_tsc_cal_info (tsc-support.cpp)      *)
(*   SpecTscCal   tsc_from_cal on drawn samples (tsc-support.cpp)          *)
(*   SpecMsr      read_msr and get_rfile (msr-access.c), any thread        *)
(*   SpecWarm     operator() from warmup::warm to run_test's first call    *)
(***************************************************************************)
EXTENDS Integers, Sequences, FiniteSets, TLC

VARIABLES
    \* ---- SpecBarrier: one hot_barrier and its callers
    hb_bar,        \* the hot_barrier object [break_count, current]
    hb_pc,         \* caller -> "idle" | "spin" | "ret": position inside wait()
    hb_count,      \* caller -> wait()'s local spin counter
    hb_ret,        \* caller -> value wait() returned (-1: not returned)
    hb_incs,       \* number of increment() calls made so far (by anyone)
    hb_obs,        \* set of <<k, r>>: is_broken() returned r after k increments
    \* ---- Spec: main's loop over the specs and the threads of the running spec
    arg_nobarrier, \* --no-barrier
    arg_no_pin,    \* --no-pin
    specs,         \* the test specs: a sequence of thread_funcs sequences
    arg_iters,     \* --iters (a size_t)
    arg_focus,     \* --test: [set, val], val the ids between the commas
    arg_spec,      \* --spec: [set, val], val the elements, each its halves
    arg_min_threads, \* --min-threads (an int)
    arg_max_threads, \* --max-threads: [set, val] (val an int)
    arg_cpuids,    \* --cpuids: [set, val], val the texts between the commas
    isas_supported, \* get_isas(): the set of ISA bits of the hardware
    cpus,          \* the usable CPU ids: get_cpus(), then filter_cpus()
    cpu_ids,       \* main's cpu_ids
    si,            \* index (1-based) of the spec the for loop is at
    mpc,           \* position of main
    last_thread_count, \* -1 stands for -1u
    results_list,  \* sequence of result_holder: [spec, results]
    reports,       \* the result lists handed to report_results, in order
    start,         \* the start hot_barrier of the running spec
    stop,          \* the stop hot_barrier of the running spec
    nthreads,      \* threads.size(): threads constructed for the running spec
    ji,            \* number of threads joined (position of the join loop)
    th_test,       \* thread -> index of the descriptor it was given (0: none)
    th_cpu,        \* thread -> the cpu_id it was constructed with (-1 stands
                   \* for (size_t)-1)
    nspawned,      \* history: threads constructed since the process started
    barriers,      \* history: the break_counts hot_barriers were built with
    failed_assert, \* history: the functions whose assert() has failed
    exited,        \* "no" | "success" (main returned) | "error" (exit(EXIT_FAILURE))
    pc,            \* thread -> position in operator() / run_test
    warms,         \* thread -> warmup::warm's local iters
    spins,         \* thread -> start_barrier->wait()'s local count
    w,             \* thread -> run_test's pass counter w
    r,             \* thread -> run_test's trial counter r
    res,           \* thread -> fields of test_thread::res written so far
    passes,        \* thread -> passes of run_test completed (history)
    trials,        \* thread -> trials of run_test completed (history)
    \* ---- SpecConc: calls of concurrency and conc_ratio on one input
    cn_ndebug,     \* the build defines NDEBUG: assert() compiles to nothing
    cn_in,         \* the input: a sequence of intervals <<first, second>>
    cn_ret,        \* outcome of concurrency on cn_in
    cn_ret2,       \* outcome of concurrency on a rearrangement of cn_in
    cn_ratio,      \* outcome of conc_ratio on cn_in
    \* ---- SpecNested: calls of nested_concurrency and nconc_ratio
    nc_outer,      \* the outer intervals
    nc_inner,      \* the inner intervals
    nc_ret,        \* outcome of nested_concurrency on nc_outer, nc_inner
    nc_ratio,      \* outcome of nconc_ratio on nc_outer, nc_inner
    \* ---- SpecTrial: the timed passes of run_test in one thread, with data
    tr_cost,       \* the workload: [c, k], a call of n iterations takes c + k*n
    tr_iters,      \* run_test's iters
    tr_tsc,        \* the time stamp counter (64 bits in the build)
    tr_pc,         \* position in run_test
    tr_w,          \* the pass counter w
    tr_r,          \* the trial counter r
    tr_t,          \* the locals <<t0, t1, t2>> of the trial (0 when dead)
    tr_results,    \* the array results[0 .. TRIES-1] (slot r at index r+1)
    tr_took,       \* history: <<d1, d2>> per slot, what the two calls took
    tr_freq,       \* RdtscClock::tsc_freq(), in ticks per second
    tr_use_aperf,  \* test_thread::use_aperf
    tr_res,        \* the timestamps of res and res.inner (-1: not set)
    tr_mops,       \* res.inner.mops
    tr_timer,      \* aperf_timer: [state, failed (its failed assertions)]
    tr_elapsed,    \* history: ticks of the counter since the first read
    tr_drain,      \* history: turns of the loop that polls the stop barrier
    tr_log,        \* history: the calls of the thread, in order
    tr_hist,       \* history: per pass, what it measured
    \* ---- SpecClock: the function-local statics of RdtscClock
    tr_dirty,      \* the hooks enabled by --dirty-upper, --dirty-upper16
    tr_ratios,     \* res.aperf_am and res.aperf_mt (doubles)
    ck_guard,      \* static -> "uninit" | "busy" | "done": its guard variable
    ck_freq,       \* tsc_freq()'s static freq (zero until initialized)
    ck_factor,     \* to_nanos()'s static tsc_to_nanos (zero until initialized)
    ck_pc,         \* thread -> position inside tsc_freq() / to_nanos()
    ck_nested,     \* thread -> tsc_freq() was called by to_nanos()'s initializer
    ck_calls,      \* thread -> calls of tsc_freq() / to_nanos() begun
    ck_seen,       \* thread -> the values tsc_freq() has returned to it
    ck_used,       \* thread -> the factors to_nanos() has multiplied by for it
    ck_evaluated,  \* history: the values get_tsc_freq() returned, in order
    \* ---- SpecTscFreq: get_tsc_freq and get_tsc_cal_info on one machine
    tf_in,         \* the machine: CPUID leaf 0x15, family, model, the flag
    tf_ret,        \* outcome of get_tsc_freq(force_calibrate)
    tf_info,       \* outcome of get_tsc_cal_info(force_calibrate)
    \* ---- SpecTscCal: tsc_from_cal on one run of do_sample() results
    cal_samples,   \* the array samples[0 .. 2*SAMPLES-1] (index + 1)
    cal_ret,       \* outcome of tsc_from_cal()
    \* ---- SpecMsr: get_rfile and read_msr called by several threads
    ms_size,       \* rfile_size
    ms_array,      \* rfile_array[0 .. rfile_size-1] (index + 1)
    ms_lock,       \* the thread that holds the mutex (-1: nobody)
    ms_pc,         \* thread -> position inside read_msr / get_rfile
    ms_cpu,        \* thread -> the cpu argument of its call
    ms_file,       \* thread -> read_msr's local file
    ms_calls,      \* thread -> calls of read_msr begun
    ms_opens,      \* history: cpu -> times open() was called for its device
    ms_rets,       \* history: cpu -> what read_msr returned for it, in order
    ms_beyond,     \* history: rfile_array was indexed beyond its end
    \* ---- SpecWarm: operator() from the warmup to run_test's first call
    wm_pc,         \* position of the thread
    wm_tsc,        \* the time stamp counter
    wm_freq,       \* what tsc_freq() returns
    wm_millis,     \* arg_warm_ms.Get()
    wm_nobarrier,  \* --no-barrier
    wm_start,      \* warm()'s local start
    wm_iters,      \* warm()'s local iters
    wm_elapsed,    \* history: ticks since warm() read start
    wm_log         \* history: the calls of the thread, in order

barVars  == <<hb_bar, hb_pc, hb_count, hb_ret, hb_incs, hb_obs>>
cfgVars  == <<arg_iters, arg_focus, arg_spec, arg_min_threads, arg_max_threads,
              arg_cpuids, isas_supported, cpus, cpu_ids>>
argVars  == <<arg_nobarrier, arg_no_pin, specs, cfgVars>>
histVars == <<th_test, th_cpu, nspawned, barriers, failed_assert>>
orchVars == <<si, mpc, last_thread_count, results_list, reports, nthreads, ji,
              histVars>>
mainVars == <<argVars, orchVars, start, stop, exited>>
thrVars  == <<pc, warms, spins, w, r, res, passes, trials>>
nestVars == <<nc_outer, nc_inner, nc_ret, nc_ratio>>
trialVars == <<tr_cost, tr_iters, tr_tsc, tr_pc, tr_w, tr_r, tr_t, tr_results,
               tr_took, tr_freq, tr_use_aperf, tr_res, tr_mops, tr_timer,
               tr_elapsed, tr_drain, tr_log, tr_hist, tr_ratios, tr_dirty>>
clockVars == <<ck_guard, ck_freq, ck_factor, ck_pc, ck_nested, ck_calls, ck_seen,
               ck_used, ck_evaluated>>
tscVars  == <<tf_in, tf_ret, tf_info>>
calVars  == <<cal_samples, cal_ret>>
msrVars  == <<ms_size, ms_array, ms_lock, ms_pc, ms_cpu, ms_file, ms_calls,
              ms_opens, ms_rets, ms_beyond>>
warmVars == <<wm_pc, wm_tsc, wm_freq, wm_millis, wm_nobarrier, wm_start,
              wm_iters, wm_elapsed, wm_log>>
auxVars  == <<clockVars, tscVars, calVars, msrVars, warmVars>>
concVars == <<cn_ndebug, cn_in, cn_ret, cn_ret2, cn_ratio, nestVars, trialVars,
              auxVars>>
vars     == <<barVars, mainVars, thrVars, concVars>>

(***************************************************************************)
(* Bounds of the model.                                                    *)
(***************************************************************************)
\* number of usable CPUs = largest thread count of a spec
MaxCpus == 2
\* cap of the spin counter of hot_barrier::wait (a long in the code)
MaxSpin == 1
\* cap of the iteration counter of warmup::warm (a long in the code)
MaxWarm == 1
\* run_test's template parameters, instantiated small (the defaults are
\* TRIES = 101 and WARMUP = 3, avx-turbo.cpp 377)
TRIES == 1
WARMUP == 1
\* bare increment() calls the barrier harness makes beyond break_count
MaxOverrun == 1
\* longest list of intervals drawn, and the largest timestamp in it
MaxIntervals == 3
MaxStamp == 2
\* longest outer list and longest inner list drawn for nested_concurrency
MaxNested == 2
\* longest list of copies of one interval drawn
MaxCopies == 14
\* bits of the significand of a double (53 in the build)
MantBits == 6
\* bits of the time stamp counter and of a time delta (64 in the build)
TscBits == 10
\* largest fixed overhead c and largest per-iteration cost k of a workload
MaxCost == 2
\* largest iteration count drawn, in hundreds
MaxHundreds == 2
\* longest delay (an interrupt, a frequency change) added to one call
MaxJitter == 1
\* turns of the loop that polls the stop barrier before it is broken
MaxDrain == 1

\* largest CPU id of the machine
MaxCpuId == 2

\* iters is a multiple of 100 (avx-turbo.cpp 379, 791)
IterStep == 100

Threads == 0 .. (MaxCpus - 1)

(***************************************************************************)
(* hot_barrier (avx-turbo.cpp 346-370)                                     *)
(***************************************************************************)
hot_barrier_preset(count) == [break_count |-> count, current |-> 1]
\* hot_barrier(size_t count) : break_count(count), current{0}
hot_barrier(count) == [break_count |-> count, current |-> 0]

increment_by_two(b) == [b EXCEPT !.current = @ + 2]
\* void increment() { current++; }   -- one atomic read-modify-write
increment(b) == [b EXCEPT !.current = @ + 1]

is_broken_early(b) == b.current + 1 >= b.break_count
\* bool is_broken() { return current.load() == break_count; }
is_broken(b) == b.current = b.break_count

(***************************************************************************)
(* Values the variables of a specification keep while another one runs.    *)
(***************************************************************************)
NoBarrier == [break_count |-> 0, current |-> 0]

BarrierIdle ==
    /\ hb_bar = NoBarrier
    /\ hb_pc = [c \in Threads |-> "idle"]
    /\ hb_count = [c \in Threads |-> 0]
    /\ hb_ret = [c \in Threads |-> -1]
    /\ hb_incs = 0
    /\ hb_obs = {}

\* an option that was not given: args::ValueFlag converts to false
UnsetList == [set |-> FALSE, val |-> << >>]
UnsetInt == [set |-> FALSE, val |-> 0]
Given(v) == [set |-> TRUE, val |-> v]

\* the options as constructed (avx-turbo.cpp 169-192): --iters defaults to
\* 100000 and --min-threads to 1, the others are unset
ArgDefaults ==
    /\ arg_iters = IterStep * 1000
    /\ arg_focus = UnsetList
    /\ arg_spec = UnsetList
    /\ arg_min_threads = 1
    /\ arg_max_threads = UnsetInt
    /\ arg_cpuids = UnsetList

\* nothing has been spawned, constructed or asserted yet
HistIdle ==
    /\ th_test = [t \in Threads |-> 0]
    /\ th_cpu = [t \in Threads |-> 0]
    /\ nspawned = 0
    /\ barriers = {}
    /\ failed_assert = {}

MainIdle ==
    /\ arg_nobarrier = FALSE
    /\ arg_no_pin = FALSE
    /\ specs = << >>
    /\ ArgDefaults
    /\ isas_supported = {}
    /\ cpus = << >>
    /\ cpu_ids = << >>
    /\ HistIdle
    /\ si = 1
    /\ mpc = "exit"
    /\ last_thread_count = -1
    /\ results_list = << >>
    /\ reports = << >>
    /\ start = NoBarrier
    /\ stop = NoBarrier
    /\ nthreads = 0
    /\ ji = 0
    /\ exited = "success"

TrialIdle ==
    /\ tr_cost = [c |-> 0, k |-> 0]
    /\ tr_iters = 0
    /\ tr_tsc = 0
    /\ tr_pc = "idle"
    /\ tr_w = 0
    /\ tr_r = 0
    /\ tr_t = <<0, 0, 0>>
    /\ tr_results = << >>
    /\ tr_took = << >>
    /\ tr_freq = 0
    /\ tr_use_aperf = FALSE
    /\ tr_res = << >>
    /\ tr_mops = [kind |-> "none", val |-> << >>]
    /\ tr_timer = << >>
    /\ tr_elapsed = 0
    /\ tr_drain = 0
    /\ tr_log = << >>
    /\ tr_hist = << >>
    /\ tr_ratios = << >>
    /\ tr_dirty = {}

\* the outcome of a call: not made yet, returned val, or ended in abort()
NotCalled == [kind |-> "none", val |-> << >>]
Aborted == [kind |-> "abort", val |-> << >>]
Returned(v) == [kind |-> "ret", val |-> v]

CallsIdle ==
    /\ cn_in = << >>
    /\ cn_ret = NotCalled
    /\ cn_ret2 = NotCalled
    /\ cn_ratio = NotCalled
    /\ nc_outer = << >>
    /\ nc_inner = << >>
    /\ nc_ret = NotCalled
    /\ nc_ratio = NotCalled

AnalysisIdle == cn_ndebug = FALSE /\ CallsIdle

ClockIdle ==
    /\ ck_guard = [g \in {"freq", "tsc_to_nanos"} |-> "uninit"]
    /\ ck_freq = 0
    /\ ck_factor = 0
    /\ ck_pc = [t \in Threads |-> "out"]
    /\ ck_nested = [t \in Threads |-> FALSE]
    /\ ck_calls = [t \in Threads |-> 0]
    /\ ck_seen = [t \in Threads |-> {}]
    /\ ck_used = [t \in Threads |-> {}]
    /\ ck_evaluated = << >>

TscIdle ==
    /\ tf_in = << >>
    /\ tf_ret = NotCalled
    /\ tf_info = NotCalled
    /\ cal_samples = << >>
    /\ cal_ret = NotCalled

MsrIdle ==
    /\ ms_size = 0
    /\ ms_array = << >>
    /\ ms_lock = -1
    /\ ms_pc = [t \in Threads |-> "out"]
    /\ ms_cpu = [t \in Threads |-> 0]
    /\ ms_file = [t \in Threads |-> 0]
    /\ ms_calls = [t \in Threads |-> 0]
    /\ ms_opens = << >>
    /\ ms_rets = << >>
    /\ ms_beyond = FALSE

WarmIdle ==
    /\ wm_pc = "idle"
    /\ wm_tsc = 0
    /\ wm_freq = 0
    /\ wm_millis = 0
    /\ wm_nobarrier = FALSE
    /\ wm_start = 0
    /\ wm_iters = 0
    /\ wm_elapsed = 0
    /\ wm_log = << >>

AuxIdle == ClockIdle /\ TscIdle /\ MsrIdle /\ WarmIdle

ConcIdle == AnalysisIdle /\ TrialIdle /\ AuxIdle

ThreadsIdle ==
    /\ pc = [t \in Threads |-> "unspawned"]
    /\ warms = [t \in Threads |-> 0]
    /\ spins = [t \in Threads |-> 0]
    /\ w = [t \in Threads |-> 0]
    /\ r = [t \in Threads |-> 0]
    /\ res = [t \in Threads |-> {}]
    /\ passes = [t \in Threads |-> 0]
    /\ trials = [t \in Threads |-> 0]

(***************************************************************************)
(* SpecBarrier: a hot_barrier of N participants, called through            *)
(* increment(), is_broken() and wait() by any caller in any order.         *)
(***************************************************************************)
InitBarrier ==
    /\ \E n \in 1 .. MaxCpus : hb_bar = hot_barrier(n)
    /\ hb_pc = [c \in Threads |-> "idle"]
    /\ hb_count = [c \in Threads |-> 0]
    /\ hb_ret = [c \in Threads |-> -1]
    /\ hb_incs = 0
    /\ hb_obs = {}
    /\ MainIdle
    /\ ThreadsIdle
    /\ ConcIdle

\* a call of increment() on its own
HB_Increment ==
    /\ hb_incs < hb_bar.break_count + MaxOverrun
    /\ hb_bar' = increment(hb_bar)
    /\ hb_incs' = hb_incs + 1
    /\ UNCHANGED <<hb_pc, hb_count, hb_ret, hb_obs, mainVars, thrVars, concVars>>

\* a call of is_broken() on its own; its result is recorded with the number
\* of increment() calls that preceded it
HB_IsBroken ==
    /\ hb_obs' = hb_obs \cup {<<hb_incs, is_broken(hb_bar)>>}
    /\ UNCHANGED <<hb_bar, hb_pc, hb_count, hb_ret, hb_incs, mainVars, thrVars, concVars>>

\* wait(): increment(); long count = 0;
HB_WaitEnter(c) ==
    /\ hb_pc[c] = "idle"
    /\ hb_bar' = increment(hb_bar)
    /\ hb_incs' = hb_incs + 1
    /\ hb_count' = [hb_count EXCEPT ![c] = 0]
    /\ hb_pc' = [hb_pc EXCEPT ![c] = "spin"]
    /\ UNCHANGED <<hb_ret, hb_obs, mainVars, thrVars, concVars>>

\* wait(): while (!is_broken()) { count++; }   -- one failed poll
HB_WaitSpin(c) ==
    /\ hb_pc[c] = "spin"
    /\ ~is_broken(hb_bar)
    /\ hb_count[c] < MaxSpin
    /\ hb_count' = [hb_count EXCEPT ![c] = @ + 1]
    /\ UNCHANGED <<hb_bar, hb_pc, hb_ret, hb_incs, hb_obs, mainVars, thrVars, concVars>>

\* wait(): the poll that finds the barrier broken; return count;
HB_WaitReturn(c) ==
    /\ hb_pc[c] = "spin"
    /\ is_broken(hb_bar)
    /\ hb_ret' = [hb_ret EXCEPT ![c] = hb_count[c]]
    /\ hb_pc' = [hb_pc EXCEPT ![c] = "ret"]
    /\ UNCHANGED <<hb_bar, hb_count, hb_incs, hb_obs, mainVars, thrVars, concVars>>

NextBarrier ==
    \/ HB_Increment
    \/ HB_IsBroken
    \/ \E c \in Threads : HB_WaitEnter(c)
    \/ \E c \in Threads : HB_WaitSpin(c)
    \/ \E c \in Threads : HB_WaitReturn(c)

SpecBarrier == InitBarrier /\ [][NextBarrier]_vars

\* C1: for a hot_barrier of N >= 1 participants, is_broken() returns false
\* after any k < N increment() calls and true once exactly N have been made.
C1_BrokenIffAllArrived ==
    \A o \in hb_obs :
        /\ o[1] < hb_bar.break_count => o[2] = FALSE
        /\ o[1] = hb_bar.break_count => o[2] = TRUE

\* a barrier of N >= 2 polled after N-1 increments (false) and after N (true)
C1_Witness ==
    /\ hb_bar.break_count >= 2
    /\ <<hb_bar.break_count - 1, FALSE>> \in hb_obs
    /\ <<hb_bar.break_count, TRUE>> \in hb_obs

\* C2: when N threads each call wait() once on a hot_barrier of N
\* participants, no wait() returns before the N-th increment took effect.
C2_NoEarlyReturn ==
    \A c \in Threads :
        hb_pc[c] = "ret" => hb_incs >= hb_bar.break_count

\* N >= 2 threads called wait() once each, nobody else incremented, all returned
C2_Witness ==
    /\ hb_bar.break_count >= 2
    /\ hb_incs = hb_bar.break_count
    /\ Cardinality({c \in Threads : hb_pc[c] = "ret"}) = hb_bar.break_count
    /\ \E c \in Threads : hb_ret[c] > 0

(***************************************************************************)
(* Test specs (avx-turbo.cpp 440-523)                                      *)
(***************************************************************************)
\* size_t test_spec::count() const { return thread_funcs.size(); }
count(spec) == Len(spec.thread_funcs)

\* try_add: a spec of thread_count copies of t
try_add(t, thread_count) ==
    [name |-> t, thread_funcs |-> [i \in 1 .. thread_count |-> t]]

\* make_default_tests: for every thread count from --min-threads to maxcpus
\* and every selected func, a spec with that many copies of the func
RECURSIVE make_default_tests(_, _, _)
make_default_tests(min_threads, maxcpus, funcs) ==
    IF min_threads > maxcpus THEN << >>
    ELSE [i \in 1 .. Len(funcs) |-> try_add(funcs[i], min_threads)]
         \o make_default_tests(min_threads + 1, maxcpus, funcs)

(***************************************************************************)
(* One measurement thread: test_thread::operator() (avx-turbo.cpp 642-661) *)
(* and run_test (377-420).  pc[t] names the statement thread t is at.      *)
(***************************************************************************)
\* the fields of test_thread::res (struct result, avx-turbo.cpp 563-573)
ResFields == {"start_ts", "inner", "end_ts", "aperf_am", "aperf_mt"}

Running == exited = "no"

Goto(t, l) == pc' = [pc EXCEPT ![t] = l]

\* if (!arg_no_pin) pin_to_cpu(cpu_id);  sched_setaffinity succeeded, or
\* pinning is off; then the timer and the warmup object are set up
T_Pin(t) ==
    /\ Running /\ pc[t] = "pin"
    /\ warms' = [warms EXCEPT ![t] = 0]
    /\ Goto(t, "warm")
    /\ UNCHANGED <<concVars, barVars, mainVars, spins, w, r, res, passes, trials>>

\* pin_to_cpu: sched_setaffinity returned -1: error(EXIT_FAILURE, ...) ends
\* the process (avx-turbo.cpp 164-166)
T_PinFail(t) ==
    /\ Running /\ pc[t] = "pin"
    /\ ~arg_no_pin
    /\ exited' = "error"
    /\ UNCHANGED <<concVars, barVars, argVars, orchVars, start, stop, thrVars>>

\* warmup::warm: one turn of the loop, the budget has not elapsed: iters++
T_WarmIter(t) ==
    /\ Running /\ pc[t] = "warm"
    /\ warms[t] < MaxWarm
    /\ warms' = [warms EXCEPT ![t] = @ + 1]
    /\ UNCHANGED <<concVars, barVars, mainVars, pc, spins, w, r, res, passes, trials>>

\* warmup::warm: the budget has elapsed, return iters (printed when verbose,
\* not used again); then if (!arg_nobarrier) start_barrier->wait()
T_WarmExit(t) ==
    /\ Running /\ pc[t] = "warm"
    /\ warms' = [warms EXCEPT ![t] = 0]
    /\ Goto(t, IF arg_nobarrier THEN "start_ts" ELSE "sb_inc")
    /\ UNCHANGED <<concVars, barVars, mainVars, spins, w, r, res, passes, trials>>

\* start_barrier->wait(): increment(); long count = 0;
T_StartInc(t) ==
    /\ Running /\ pc[t] = "sb_inc"
    /\ start' = increment(start)
    /\ spins' = [spins EXCEPT ![t] = 0]
    /\ Goto(t, "sb_spin")
    /\ UNCHANGED <<concVars, barVars, argVars, orchVars, stop, exited,
                   warms, w, r, res, passes, trials>>

\* start_barrier->wait(): while (!is_broken()) count++;  one failed poll
T_StartSpin(t) ==
    /\ Running /\ pc[t] = "sb_spin"
    /\ ~is_broken(start)
    /\ spins[t] < MaxSpin
    /\ spins' = [spins EXCEPT ![t] = @ + 1]
    /\ UNCHANGED <<concVars, barVars, mainVars, pc, warms, w, r, res, passes, trials>>

\* start_barrier->wait(): the poll that finds it broken; return count
\* (printed when verbose, not used again)
T_StartReturn(t) ==
    /\ Running /\ pc[t] = "sb_spin"
    /\ is_broken(start)
    /\ spins' = [spins EXCEPT ![t] = 0]
    /\ Goto(t, "start_ts")
    /\ UNCHANGED <<concVars, barVars, mainVars, warms, w, r, res, passes, trials>>

\* res.start_ts = RdtscClock::now();
T_StartTs(t) ==
    /\ Running /\ pc[t] = "start_ts"
    /\ res' = [res EXCEPT ![t] = @ \cup {"start_ts"}]
    /\ Goto(t, "rt_entry")
    /\ UNCHANGED <<concVars, barVars, mainVars, warms, spins, w, r, passes, trials>>

\* run_test entry: assert(iters % 100 == 0); the results array; the
\* dirty_it hooks (avx-turbo.cpp 379-391)
T_RunTestEntry(t) ==
    /\ Running /\ pc[t] = "rt_entry"
    /\ Goto(t, "ostart_ts")
    /\ UNCHANGED <<concVars, barVars, mainVars, warms, spins, w, r, res, passes, trials>>

\* result.ostart_ts = RdtscClock::now(); for (size_t w = 0; w < WARMUP + 1; ...
T_OStartTs(t) ==
    /\ Running /\ pc[t] = "ostart_ts"
    /\ w' = [w EXCEPT ![t] = 0]
    /\ Goto(t, IF 0 < WARMUP + 1 THEN "istart_ts" ELSE "stop_inc")
    /\ UNCHANGED <<concVars, barVars, mainVars, warms, spins, r, res, passes, trials>>

\* result.istart_ts = RdtscClock::now();
T_IStartTs(t) ==
    /\ Running /\ pc[t] = "istart_ts"
    /\ Goto(t, "outer_start")
    /\ UNCHANGED <<concVars, barVars, mainVars, warms, spins, w, r, res, passes, trials>>

\* outer.start(); for (size_t r = 0; r < TRIES; ...
T_OuterStart(t) ==
    /\ Running /\ pc[t] = "outer_start"
    /\ r' = [r EXCEPT ![t] = 0]
    /\ Goto(t, IF 0 < TRIES THEN "t0" ELSE "outer_stop")
    /\ UNCHANGED <<concVars, barVars, mainVars, warms, spins, w, res, passes, trials>>

\* auto t0 = CLOCK::now();
T_T0(t) ==
    /\ Running /\ pc[t] = "t0"
    /\ Goto(t, "t1")
    /\ UNCHANGED <<concVars, barVars, mainVars, warms, spins, w, r, res, passes, trials>>

\* func(iters); auto t1 = CLOCK::now();
T_T1(t) ==
    /\ Running /\ pc[t] = "t1"
    /\ Goto(t, "t2")
    /\ UNCHANGED <<concVars, barVars, mainVars, warms, spins, w, r, res, passes, trials>>

\* func(iters * 2); auto t2 = CLOCK::now();
\* results[r] = (t2 - t1) - (t1 - t0); r++
T_T2(t) ==
    /\ Running /\ pc[t] = "t2"
    /\ r' = [r EXCEPT ![t] = @ + 1]
    /\ trials' = [trials EXCEPT ![t] = @ + 1]
    /\ Goto(t, IF r[t] + 1 < TRIES THEN "t0" ELSE "outer_stop")
    /\ UNCHANGED <<concVars, barVars, mainVars, warms, spins, w, res, passes>>

\* outer.stop();
T_OuterStop(t) ==
    /\ Running /\ pc[t] = "outer_stop"
    /\ r' = [r EXCEPT ![t] = 0]
    /\ Goto(t, "iend_ts")
    /\ UNCHANGED <<concVars, barVars, mainVars, warms, spins, w, res, passes, trials>>

\* result.iend_ts = RdtscClock::now(); w++
T_IEndTs(t) ==
    /\ Running /\ pc[t] = "iend_ts"
    /\ w' = [w EXCEPT ![t] = @ + 1]
    /\ passes' = [passes EXCEPT ![t] = @ + 1]
    /\ Goto(t, IF w[t] + 1 < WARMUP + 1 THEN "istart_ts" ELSE "stop_inc")
    /\ UNCHANGED <<concVars, barVars, mainVars, warms, spins, r, res, trials>>

T_StopInc_forgotten(t) ==
    /\ Running /\ pc[t] = "stop_inc"
    /\ w' = [w EXCEPT ![t] = 0]
    /\ Goto(t, "drain_chk")
    /\ UNCHANGED <<concVars, barVars, mainVars, warms, spins, r, res, passes, trials>>
\* for (barrier->increment(); ...
T_StopInc(t) ==
    /\ Running /\ pc[t] = "stop_inc"
    /\ stop' = increment(stop)
    /\ w' = [w EXCEPT ![t] = 0]
    /\ Goto(t, "drain_chk")
    /\ UNCHANGED <<concVars, barVars, argVars, orchVars, start, exited,
                   warms, spins, r, res, passes, trials>>

T_DrainPoll_inverted(t) ==
    /\ Running /\ pc[t] = "drain_chk"
    /\ Goto(t, IF ~is_broken(stop) THEN "oend_ts" ELSE "drain_func")
    /\ UNCHANGED <<concVars, barVars, mainVars, warms, spins, w, r, res, passes, trials>>
\* for (...; !barrier->is_broken();)   the loop condition
T_DrainPoll(t) ==
    /\ Running /\ pc[t] = "drain_chk"
    /\ Goto(t, IF is_broken(stop) THEN "oend_ts" ELSE "drain_func")
    /\ UNCHANGED <<concVars, barVars, mainVars, warms, spins, w, r, res, passes, trials>>

\* the loop body: func(iters);
T_DrainFunc(t) ==
    /\ Running /\ pc[t] = "drain_func"
    /\ Goto(t, "drain_chk")
    /\ UNCHANGED <<concVars, barVars, mainVars, warms, spins, w, r, res, passes, trials>>

\* result.oend_ts = RdtscClock::now();
T_OEndTs(t) ==
    /\ Running /\ pc[t] = "oend_ts"
    /\ Goto(t, "stats")
    /\ UNCHANGED <<concVars, barVars, mainVars, warms, spins, w, r, res, passes, trials>>

\* nanos, get_stats, result.mops; return result;  res.inner = run_test(...)
T_Stats(t) ==
    /\ Running /\ pc[t] = "stats"
    /\ res' = [res EXCEPT ![t] = @ \cup {"inner"}]
    /\ Goto(t, "end_ts")
    /\ UNCHANGED <<concVars, barVars, mainVars, warms, spins, w, r, passes, trials>>

\* res.end_ts = RdtscClock::now();
T_EndTs(t) ==
    /\ Running /\ pc[t] = "end_ts"
    /\ res' = [res EXCEPT ![t] = @ \cup {"end_ts"}]
    /\ Goto(t, "aperf")
    /\ UNCHANGED <<concVars, barVars, mainVars, warms, spins, w, r, passes, trials>>

\* res.aperf_am = ...; res.aperf_mt = ...;  operator() returns
T_Aperf(t) ==
    /\ Running /\ pc[t] = "aperf"
    /\ res' = [res EXCEPT ![t] = @ \cup {"aperf_am", "aperf_mt"}]
    /\ Goto(t, "done")
    /\ UNCHANGED <<concVars, barVars, mainVars, warms, spins, w, r, passes, trials>>

ThreadStep(t) ==
    \/ T_Pin(t)
    \/ T_PinFail(t)
    \/ T_WarmIter(t)
    \/ T_WarmExit(t)
    \/ T_StartInc(t)
    \/ T_StartSpin(t)
    \/ T_StartReturn(t)
    \/ T_StartTs(t)
    \/ T_RunTestEntry(t)
    \/ T_OStartTs(t)
    \/ T_IStartTs(t)
    \/ T_OuterStart(t)
    \/ T_T0(t)
    \/ T_T1(t)
    \/ T_T2(t)
    \/ T_OuterStop(t)
    \/ T_IEndTs(t)
    \/ T_StopInc(t)
    \/ T_DrainPoll(t)
    \/ T_DrainFunc(t)
    \/ T_OEndTs(t)
    \/ T_Stats(t)
    \/ T_EndTs(t)
    \/ T_Aperf(t)

(***************************************************************************)
(* main: the loop over the specs (avx-turbo.cpp 855-885)                   *)
(***************************************************************************)
CurSpec == specs[si]

\* if (last_thread_count != -1u && last_thread_count != spec.count())
thread_count_changed_never(last, n) == FALSE
thread_count_changed(last, n) == last # -1 /\ last # n

\* the head of one turn of the for loop: report and clear the accumulated
\* results if the thread count changed, then construct the (empty) deque
\* of threads and the two barriers
\* then assert(!spec.thread_funcs.empty()), which ends the process in a
\* build with assertions
M_BeginSpec ==
    /\ Running /\ mpc = "head"
    /\ si <= Len(specs)
    /\ IF thread_count_changed(last_thread_count, count(CurSpec))
       THEN /\ reports' = Append(reports, results_list)
            /\ results_list' = << >>
       ELSE UNCHANGED <<reports, results_list>>
    /\ last_thread_count' = count(CurSpec)
    /\ IF count(CurSpec) = 0 /\ ~cn_ndebug
       THEN /\ failed_assert' = failed_assert \cup {"main"}
            /\ exited' = "error"
            /\ UNCHANGED <<start, stop, nthreads, ji, mpc, barriers>>
       ELSE /\ start' = hot_barrier(count(CurSpec))
            /\ stop' = hot_barrier(count(CurSpec))
            /\ barriers' = barriers \cup {count(CurSpec)}
            /\ nthreads' = 0
            /\ ji' = 0
            /\ mpc' = "spawn"
            /\ UNCHANGED <<exited, failed_assert>>
    /\ UNCHANGED <<concVars, barVars, argVars, si, thrVars, th_test, th_cpu,
                   nspawned>>

\* for (auto& test : spec.thread_funcs): the descriptor the loop is at when
\* threads.size() is n (1-based index into thread_funcs)
descriptor_first(n) == 1
descriptor(n) == n + 1

\* any int (what a read past the end of a vector may give)
AnyCpuId == -1 .. (MaxCpuId + 1)

\* cpu_ids[n]: std::vector::operator[] does not check n; past the end the
\* behaviour is undefined and the value read is any int
cpu_ids_at(n) == IF n < Len(cpu_ids) THEN {cpu_ids[n + 1]} ELSE AnyCpuId

\* threads.emplace_back(threads.size(), ...): constructing the test_thread
\* starts its std::thread, which runs operator(); the loop is at the
\* descriptor thread_funcs[threads.size()] and passes its address
M_Spawn ==
    /\ Running /\ mpc = "spawn"
    /\ nthreads < count(CurSpec)
    /\ pc' = [pc EXCEPT ![nthreads] = "pin"]
    /\ th_test' = [th_test EXCEPT ![nthreads] = descriptor(nthreads)]
    /\ \E c \in cpu_ids_at(nthreads) :
          th_cpu' = [th_cpu EXCEPT ![nthreads] = c]
    /\ nspawned' = nspawned + 1
    /\ nthreads' = nthreads + 1
    /\ UNCHANGED <<concVars, barVars, argVars, si, mpc, last_thread_count, results_list,
                   reports, ji, start, stop, exited, barriers, failed_assert,
                   warms, spins, w, r, res, passes, trials>>

\* results_list.emplace_back(&spec);  (origin is history: the ids of the
\* threads the results were copied from)
M_Emplace ==
    /\ Running /\ mpc = "spawn"
    /\ nthreads = count(CurSpec)
    /\ results_list' = Append(results_list,
                              [spec |-> si, results |-> << >>, origin |-> << >>])
    /\ mpc' = "join"
    /\ UNCHANGED <<concVars, barVars, argVars, si, last_thread_count, reports, nthreads,
                   ji, start, stop, exited, thrVars, histVars>>

join_returns_at_once(t) == pc[t] # "unspawned"
\* t.thread.join() returns once the thread function has returned
join_returns(t) == pc[t] = "done"

\* t.thread.join(); results_list.back().results.push_back(t.res);
M_Join ==
    /\ Running /\ mpc = "join"
    /\ ji < nthreads
    /\ join_returns(ji)
    /\ results_list' = [results_list EXCEPT
                          ![Len(results_list)].results = Append(@, res[ji]),
                          ![Len(results_list)].origin = Append(@, ji)]
    /\ ji' = ji + 1
    /\ UNCHANGED <<concVars, barVars, argVars, si, mpc, last_thread_count, reports,
                   nthreads, start, stop, exited, thrVars, histVars>>

\* the end of the loop body: stop, start and the deque of (joined) threads
\* are destroyed; the loop moves to the next spec
M_EndSpec ==
    /\ Running /\ mpc = "join"
    /\ ji = nthreads
    /\ pc' = [t \in Threads |-> "unspawned"]
    /\ res' = [t \in Threads |-> {}]
    /\ passes' = [t \in Threads |-> 0]
    /\ trials' = [t \in Threads |-> 0]
    /\ start' = NoBarrier
    /\ stop' = NoBarrier
    /\ nthreads' = 0
    /\ ji' = 0
    /\ th_test' = [t \in Threads |-> 0]
    /\ th_cpu' = [t \in Threads |-> 0]
    /\ si' = si + 1
    /\ mpc' = "head"
    /\ UNCHANGED <<concVars, barVars, argVars, last_thread_count, results_list, reports,
                   exited, warms, spins, w, r, nspawned, barriers, failed_assert>>

\* after the loop: report_results(results_list, use_aperf); return EXIT_SUCCESS;
M_Finish ==
    /\ Running /\ mpc = "head"
    /\ si > Len(specs)
    /\ reports' = Append(reports, results_list)
    /\ mpc' = "exit"
    /\ exited' = "success"
    /\ UNCHANGED <<concVars, barVars, argVars, si, last_thread_count, results_list,
                   nthreads, ji, start, stop, thrVars, histVars>>

MainStep ==
    \/ M_BeginSpec
    \/ M_Spawn
    \/ M_Emplace
    \/ M_Join
    \/ M_EndSpec
    \/ M_Finish

\* the function the default sweep repeats (the first entry of ALL_FUNCS)
FUNC == "pause_only"

\* main has parsed its arguments and built the specs: the default sweep
\* over the thread counts --min-threads .. cpus.size()
Init ==
    /\ arg_nobarrier \in BOOLEAN
    /\ arg_no_pin \in BOOLEAN
    /\ \E ncpus \in 1 .. MaxCpus : \E min_threads \in 1 .. ncpus :
          /\ specs = make_default_tests(min_threads, ncpus, <<FUNC>>)
          /\ arg_min_threads = min_threads
          /\ cpus = [i \in 1 .. ncpus |-> i - 1]
          /\ cpu_ids = [i \in 1 .. ncpus |-> i - 1]
    /\ arg_iters = IterStep
    /\ arg_focus = Given(<<FUNC>>)
    /\ arg_spec = UnsetList
    /\ arg_max_threads = UnsetInt
    /\ arg_cpuids = UnsetList
    /\ isas_supported = {"BASE"}
    /\ HistIdle
    /\ si = 1
    /\ mpc = "head"
    /\ last_thread_count = -1
    /\ results_list = << >>
    /\ reports = << >>
    /\ start = NoBarrier
    /\ stop = NoBarrier
    /\ nthreads = 0
    /\ ji = 0
    /\ exited = "no"
    /\ ThreadsIdle
    /\ BarrierIdle
    /\ ConcIdle

Next ==
    \/ MainStep
    \/ \E t \in Threads : ThreadStep(t)

Spec == Init /\ [][Next]_vars

\* a preemptive scheduler: main and every thread keep being scheduled
FairSpec ==
    /\ Spec
    /\ WF_vars(MainStep)
    /\ \A t \in Threads : WF_vars(ThreadStep(t))

(***************************************************************************)
(* Claims about the threads of a spec and the orchestrator                 *)
(***************************************************************************)
\* the running spec's thread ids
SpecThreads == IF si <= Len(specs) THEN 0 .. (count(CurSpec) - 1) ELSE {}

\* positions before the thread has incremented the start barrier
BeforeStartInc == {"unspawned", "pin", "warm", "sb_inc"}

\* positions after the thread has incremented the stop barrier
AfterStopInc == {"drain_chk", "drain_func", "oend_ts", "stats", "end_ts",
                 "aperf", "done"}

\* positions after the thread has left the drain loop
AfterDrain == {"oend_ts", "stats", "end_ts", "aperf", "done"}

\* C3: with barrier synchronization enabled, no thread of a spec takes its
\* start timestamp (or begins its timed passes) before every one of the
\* spec's count() threads has finished its warmup and incremented the start
\* barrier.
C3_StartAligned ==
    ~arg_nobarrier =>
        \A t \in Threads :
            "start_ts" \in res[t] =>
                /\ start.current = count(CurSpec)
                /\ \A u \in SpecThreads : pc[u] \notin BeforeStartInc

\* one thread has taken its start timestamp while a sibling that spun is
\* still inside wait()
C3_Witness ==
    /\ ~arg_nobarrier
    /\ \E t, u \in SpecThreads :
          /\ "start_ts" \in res[t]
          /\ pc[u] = "sb_spin"
          /\ spins[u] > 0

\* C4: no thread of a spec leaves the stop-barrier drain loop (and records
\* oend_ts) until every thread of the same spec has completed its warmup and
\* all of its WARMUP+1 timed passes and has incremented the stop barrier.
C4_StopAligned ==
    \A t \in Threads :
        pc[t] \in AfterDrain =>
            \A u \in SpecThreads :
                /\ pc[u] \in AfterStopInc
                /\ passes[u] = WARMUP + 1
                /\ trials[u] = (WARMUP + 1) * TRIES

\* one thread has finished while a sibling is still in the drain loop
C4_Witness ==
    \E t, u \in SpecThreads :
        /\ pc[t] = "done"
        /\ pc[u] = "drain_func"

\* C5: the orchestrator copies a thread's result only after it has joined
\* that thread, and the first result of a spec only after all count()
\* threads have incremented the stop barrier; a result is never read while
\* its owning thread may still write it (every copy is a complete result).
C5_CopyAfterJoin ==
    /\ \A h \in 1 .. Len(results_list) :
          \A k \in 1 .. Len(results_list[h].results) :
              results_list[h].results[k] = ResFields
    /\ mpc = "join" =>
          /\ Len(results_list[Len(results_list)].results) = ji
          /\ \A t \in 0 .. (ji - 1) : pc[t] = "done"
          /\ ji >= 1 =>
                /\ stop.current = count(CurSpec)
                /\ \A u \in SpecThreads : pc[u] \in AfterStopInc

\* the first result of a two-thread spec is copied while the second thread
\* is still writing its own
C5_Witness ==
    /\ mpc = "join"
    /\ ji = 1
    /\ nthreads = 2
    /\ pc[1] \in {"stats", "end_ts", "aperf"}

\* thread t of the running spec has been joined
Joined(t) == mpc = "join" /\ ji > t

Abs(i) == IF i < 0 THEN -i ELSE i

Sign(i) == IF i < 0 THEN -1 ELSE IF i > 0 THEN 1 ELSE 0

RECURSIVE GCD(_, _)
GCD(a, b) == IF b = 0 THEN a ELSE GCD(b, a % b)

RECURSIVE Pow2(_)
Pow2(k) == IF k = 0 THEN 1 ELSE 2 * Pow2(k - 1)

NaN == [num |-> 0, den |-> 0]
Inf(sign) == [num |-> sign, den |-> 0]
IsNaN(x) == x.den = 0 /\ x.num = 0
IsInf(x) == x.den = 0 /\ x.num # 0

\* the rational n/d (d > 0) in lowest terms
Rational(n, d) ==
    LET g == GCD(Abs(n), d) IN [num |-> n \div g, den |-> d \div g]

\* <<n2, d2, e>> with n/d = (n2/d2) * 2^e and 2^(MantBits-1) <= n2/d2 < 2^MantBits
RECURSIVE Scale(_, _, _)
Scale(n, d, e) ==
    IF n >= d * Pow2(MantBits) THEN Scale(n, 2 * d, e + 1)
    ELSE IF n < d * Pow2(MantBits - 1) THEN Scale(2 * n, d, e - 1)
    ELSE <<n, d, e>>

\* the double nearest to the positive rational n/d, ties to the even significand
RoundPositive(n, d) ==
    LET sc == Scale(n, d, 0)
        q == sc[1] \div sc[2]
        rem == sc[1] - q * sc[2]
        m == IF 2 * rem > sc[2] \/ (2 * rem = sc[2] /\ q % 2 = 1)
             THEN q + 1 ELSE q
    IN  IF sc[3] >= 0 THEN Rational(m * Pow2(sc[3]), 1)
        ELSE Rational(m, Pow2(-sc[3]))

\* the double nearest to the rational n/d (d > 0)
RoundToDouble(n, d) ==
    IF n = 0 THEN [num |-> 0, den |-> 1]
    ELSE IF n > 0 THEN RoundPositive(n, d)
    ELSE LET x == RoundPositive(-n, d) IN [num |-> -x.num, den |-> x.den]

\* (double)i, the conversion of an integer
ToDouble(i) == RoundToDouble(i, 1)

FNeg(a) == [num |-> -a.num, den |-> a.den]

\* a + b
FAdd(a, b) ==
    IF IsNaN(a) \/ IsNaN(b) THEN NaN
    ELSE IF IsInf(a) /\ IsInf(b) THEN (IF a.num = b.num THEN a ELSE NaN)
    ELSE IF IsInf(a) THEN a
    ELSE IF IsInf(b) THEN b
    ELSE RoundToDouble(a.num * b.den + b.num * a.den, a.den * b.den)

\* a - b
FSub(a, b) == FAdd(a, FNeg(b))

\* a * b
FMul(a, b) ==
    IF IsNaN(a) \/ IsNaN(b) THEN NaN
    ELSE IF IsInf(a) \/ IsInf(b)
         THEN (IF a.num = 0 \/ b.num = 0 THEN NaN
               ELSE Inf(Sign(a.num) * Sign(b.num)))
    ELSE RoundToDouble(a.num * b.num, a.den * b.den)

\* a / b
FDiv(a, b) ==
    IF IsNaN(a) \/ IsNaN(b) THEN NaN
    ELSE IF IsInf(a) THEN (IF IsInf(b) THEN NaN
                           ELSE Inf(a.num * (IF b.num < 0 THEN -1 ELSE 1)))
    ELSE IF IsInf(b) THEN [num |-> 0, den |-> 1]
    ELSE IF b.num = 0 THEN (IF a.num = 0 THEN NaN ELSE Inf(Sign(a.num)))
    ELSE RoundToDouble(a.num * b.den * Sign(b.num), a.den * Abs(b.num))

\* a <= b for doubles that are not NaN
FLeq(a, b) ==
    IF IsInf(a) \/ IsInf(b)
    THEN (a.den = 0 /\ a.num = -1) \/ (b.den = 0 /\ b.num = 1)
    ELSE a.num * b.den <= b.num * a.den

(***************************************************************************)
(* concurrency (util.hpp 57-99).  T1, the timestamp type, is the           *)
(* iterator's value type: the unbounded integers here.                     *)
(***************************************************************************)
\* events.emplace_back(i->first, event::START);
\* events.emplace_back(i->second, event::STOP);   for every interval in turn
events(list) ==
    [k \in 1 .. 2 * Len(list) |->
        IF k % 2 = 1 THEN [stamp |-> list[(k + 1) \div 2][1], type |-> "START"]
        ELSE [stamp |-> list[k \div 2][2], type |-> "STOP"]]

\* sum_top += i->second - i->first;   over the intervals list[1 .. n]
RECURSIVE sum_top(_, _)
sum_top(list, n) ==
    IF n = 0 THEN 0 ELSE sum_top(list, n - 1) + (list[n][2] - list[n][1])

\* the sequence without its first element equal to e
RECURSIVE RemoveFirst(_, _)
RemoveFirst(seq, e) ==
    IF seq = << >> THEN << >>
    ELSE IF Head(seq) = e THEN Tail(seq)
    ELSE <<Head(seq)>> \o RemoveFirst(Tail(seq), e)

Range(seq) == {seq[k] : k \in 1 .. Len(seq)}

\* std::sort(events.begin(), events.end(), l.stamp < r.stamp): std::sort is
\* not stable, so the call leaves the events in any order that is sorted by
\* the comparator: events of equal stamp in any relative order
RECURSIVE std_sort(_)
std_sort(es) ==
    IF es = << >> THEN {<< >>}
    ELSE LET least == {e \in Range(es) :
                          \A f \in Range(es) : ~(f.stamp < e.stamp)}
         IN  UNION {{<<e>> \o s : s \in std_sort(RemoveFirst(es, e))} :
                    e \in least}

\* the loop over the sorted events from position k on.  count is a size_t:
\* a negative value -n here stands for 2^64 - n, so "count > 0" reads
\* count # 0.  A failed assert() ends the call in abort() unless NDEBUG.
RECURSIVE sweep(_, _, _, _, _)
sweep(es, k, count_, sum_bottom, ndebug) ==
    IF k > Len(es)
    THEN (IF ~ndebug /\ count_ # 0 THEN Aborted
          ELSE Returned(sum_bottom))
    ELSE IF ~ndebug /\ ~(count_ # 0 \/ es[k].type = "START") THEN Aborted
    ELSE IF ~ndebug /\ count_ # 0 /\ k = 1 THEN Aborted
    ELSE sweep(es, k + 1,
               count_ + (IF es[k].type = "START" THEN 1 ELSE -1),
               IF count_ # 0
               THEN sum_bottom + (es[k].stamp - es[k - 1].stamp)
               ELSE sum_bottom,
               ndebug)

\* concurrency(start, stop): the set of outcomes the call can have
concurrency(list, ndebug) ==
    IF list = << >> THEN {Returned(<<0, 0>>)}
    ELSE {LET o == sweep(s, 1, 0, 0, ndebug)
          IN  IF o.kind = "ret"
              THEN Returned(<<sum_top(list, Len(list)), o.val>>)
              ELSE o :
          s \in std_sort(events(list))}

(***************************************************************************)
(* remap and conc_ratio (util.hpp 198-221)                                 *)
(***************************************************************************)
\* outrange_start + (outrange_end - outrange_start)
\*                  / (inrange_end - inrange_start) * (value - inrange_start)
remap(value, inrange_start, inrange_end, outrange_start, outrange_end) ==
    FAdd(outrange_start,
         FMul(FDiv(FSub(outrange_end, outrange_start),
                   FSub(inrange_end, inrange_start)),
              FSub(value, inrange_start)))

\* conc_ratio(start, stop): the set of outcomes the call can have
conc_ratio(list, ndebug) ==
    LET N == Len(list) IN
    IF N = 1 THEN {Returned(ToDouble(1))}
    ELSE {IF conc.kind = "ret"
          THEN LET raw_ratio == FDiv(ToDouble(conc.val[1]), ToDouble(conc.val[2]))
               IN  Returned(remap(raw_ratio, ToDouble(1), ToDouble(N),
                                  ToDouble(0), ToDouble(1)))
          ELSE conc :
          conc \in concurrency(list, ndebug)}

(***************************************************************************)
(* SpecConc: concurrency and conc_ratio called on one drawn input, the     *)
(* way test/unit-test.cpp calls them.                                      *)
(***************************************************************************)
Stamps == 0 .. MaxStamp

\* the intervals with start <= end over the stamps
Intervals == {iv \in Stamps \X Stamps : iv[1] <= iv[2]}

\* the inputs of TEST_CASE concurrency and TEST_CASE conc_ratio
UnitTestInputs ==
    { <<<<1, 11>>, <<2, 4>>>>,
      <<<<99, 100>>, <<1, 2>>>>,
      <<<<-5, -4>>, <<100, 200>>, <<50, 60>>>>,
      <<<<-5, -4>>, <<0, 100>>, <<50, 60>>>>,
      <<<<1, 2>>, <<2, 3>>, <<3, 4>>>>,
      <<<<3, 4>>, <<1, 2>>, <<2, 3>>>>,
      <<<<1, 1>>, <<10, 10>>, <<10, 10>>, <<10, 10>>>>,
      <<<<55, 65>>>>,
      <<<<55, 65>>, <<55, 65>>>>,
      <<<<55, 65>>, <<65, 75>>>>,
      <<<<0, 10>>, <<0, 3>>, <<0, 7>>>>,
      <<<<0, 10>>, <<0, 3>>, <<0, 7>>, <<11, 11>>, <<11, 11>>, <<11, 11>>>> }

\* n copies of the interval (0, 1)
Copies(n) == [i \in 1 .. n |-> <<0, 1>>]

Inputs ==
    UNION {[1 .. n -> Intervals] : n \in 0 .. MaxIntervals}
    \cup UnitTestInputs
    \cup {Copies(n) : n \in 1 .. MaxCopies}

\* every order the elements of seq can be passed in
RECURSIVE Arrangements(_)
Arrangements(seq) ==
    IF seq = << >> THEN {<< >>}
    ELSE UNION {{<<e>> \o s : s \in Arrangements(RemoveFirst(seq, e))} :
                e \in Range(seq)}

InitConc ==
    /\ cn_ndebug \in BOOLEAN
    /\ cn_in \in Inputs
    /\ cn_ret = NotCalled
    /\ cn_ret2 = NotCalled
    /\ cn_ratio = NotCalled
    /\ nc_outer = << >>
    /\ nc_inner = << >>
    /\ nc_ret = NotCalled
    /\ nc_ratio = NotCalled
    /\ TrialIdle
    /\ AuxIdle
    /\ BarrierIdle
    /\ MainIdle
    /\ ThreadsIdle

\* concurrency(cn_in.begin(), cn_in.end())
CN_Concurrency ==
    /\ cn_ret = NotCalled
    /\ cn_ret' \in concurrency(cn_in, cn_ndebug)
    /\ UNCHANGED <<cn_ndebug, cn_in, cn_ret2, cn_ratio, nestVars, trialVars, auxVars,
                   barVars, mainVars, thrVars>>

\* concurrency on the same intervals passed in another order
CN_Rearranged ==
    /\ cn_ret2 = NotCalled
    /\ \E list \in Arrangements(cn_in) :
          cn_ret2' \in concurrency(list, cn_ndebug)
    /\ UNCHANGED <<cn_ndebug, cn_in, cn_ret, cn_ratio, nestVars, trialVars, auxVars,
                   barVars, mainVars, thrVars>>

\* conc_ratio(cn_in.begin(), cn_in.end())
CN_ConcRatio ==
    /\ cn_ratio = NotCalled
    /\ cn_ratio' \in conc_ratio(cn_in, cn_ndebug)
    /\ UNCHANGED <<cn_ndebug, cn_in, cn_ret, cn_ret2, nestVars, trialVars, auxVars,
                   barVars, mainVars, thrVars>>

NextConc ==
    \/ CN_Concurrency
    \/ CN_Rearranged
    \/ CN_ConcRatio

SpecConc == InitConc /\ [][NextConc]_vars

(***************************************************************************)
(* Claims about concurrency and conc_ratio                                 *)
(***************************************************************************)
\* the timestamps between the least start and the greatest end of the input
Span == IF cn_in = << >> THEN {}
        ELSE LET lo == CHOOSE a \in {iv[1] : iv \in Range(cn_in)} :
                          \A b \in {iv[1] : iv \in Range(cn_in)} : a <= b
                 hi == CHOOSE a \in {iv[2] : iv \in Range(cn_in)} :
                          \A b \in {iv[2] : iv \in Range(cn_in)} : a >= b
             IN  lo .. hi

\* the sum of the lengths of the input intervals
SumLengths ==
    Cardinality({p \in (1 .. Len(cn_in)) \X Span :
                    cn_in[p[1]][1] <= p[2] /\ p[2] < cn_in[p[1]][2]})

\* the measure of the union of the input intervals
UnionMeasure ==
    Cardinality({t \in Span :
                    \E i \in 1 .. Len(cn_in) : cn_in[i][1] <= t /\ t < cn_in[i][2]})

\* C7: for every finite list of intervals with start <= end (the empty list
\* and zero-length intervals included), concurrency returns (first, second)
\* where first is the sum of the interval lengths and second is the measure
\* of the union of the intervals; the empty list and a list of only
\* zero-length intervals give (0, 0).
C7_ReturnsSumAndUnion ==
    cn_ret # NotCalled =>
        /\ cn_ret = Returned(<<SumLengths, UnionMeasure>>)
        /\ (\A i \in 1 .. Len(cn_in) : cn_in[i][1] = cn_in[i][2])
              => cn_ret = Returned(<<0, 0>>)

\* C8: concurrency returns the same pair for every permutation of the same
\* input intervals.
C8_SamePairInAnyOrder ==
    (cn_ret # NotCalled /\ cn_ret2 # NotCalled) =>
        /\ cn_ret.kind = "ret"
        /\ cn_ret2 = cn_ret

\* all the input intervals are the same interval
AllIdentical == \A i, j \in 1 .. Len(cn_in) : cn_in[i] = cn_in[j]

\* no two input intervals overlap (they may touch at an endpoint)
PairwiseDisjoint ==
    \A i, j \in 1 .. Len(cn_in) :
        i < j => (cn_in[i][2] <= cn_in[j][1] \/ cn_in[j][2] <= cn_in[i][1])

\* (sum_durations/union - 1)/(N - 1), evaluated in double arithmetic
RatioFormula ==
    FDiv(FSub(FDiv(ToDouble(SumLengths), ToDouble(UnionMeasure)), ToDouble(1)),
         ToDouble(Len(cn_in) - 1))

\* C9: conc_ratio of exactly one interval is 1.0; for N >= 2 intervals whose
\* union has positive length it equals (sum_durations/union - 1)/(N - 1),
\* which is 1 when all N intervals are identical and 0 when they are
\* pairwise disjoint; it is 0.5 for [(0,10),(0,3),(0,7)].
C9_RatioValue ==
    cn_ratio # NotCalled =>
        /\ Len(cn_in) = 1 => cn_ratio = Returned(ToDouble(1))
        /\ (Len(cn_in) >= 2 /\ UnionMeasure > 0) =>
              /\ cn_ratio = Returned(RatioFormula)
              /\ AllIdentical => cn_ratio = Returned(ToDouble(1))
              /\ PairwiseDisjoint => cn_ratio = Returned(ToDouble(0))
        /\ cn_in = <<<<0, 10>>, <<0, 3>>, <<0, 7>>>>
              => cn_ratio = Returned(RoundToDouble(1, 2))

\* C10: for every non-empty list of N intervals with start <= end,
\* conc_ratio returns a value in the closed range [0,1]; for N >= 2 the
\* union is positive and union <= sum_durations <= N x union.
C10_RatioInUnitRange ==
    (cn_ratio # NotCalled /\ Len(cn_in) >= 1) =>
        /\ cn_ratio.kind = "ret"
        /\ ~IsNaN(cn_ratio.val)
        /\ FLeq(ToDouble(0), cn_ratio.val)
        /\ FLeq(cn_ratio.val, ToDouble(1))
        /\ Len(cn_in) >= 2 =>
              /\ UnionMeasure > 0
              /\ UnionMeasure <= SumLengths
              /\ SumLengths <= Len(cn_in) * UnionMeasure

(***************************************************************************)
(* What the calls that do return, return (invariants of SpecConc)          *)
(***************************************************************************)
\* a call of concurrency that returns, returns (sum of lengths, union)
ReturnedPairIsSumAndUnion ==
    /\ cn_ret.kind = "ret" => cn_ret.val = <<SumLengths, UnionMeasure>>
    /\ cn_ret2.kind = "ret" => cn_ret2.val = <<SumLengths, UnionMeasure>>

\* a call ends in abort() only in a build with assertions and only on an
\* input that holds a zero-length interval
AbortOnlyWithZeroLength ==
    (Aborted \in {cn_ret, cn_ret2, cn_ratio}) =>
        /\ ~cn_ndebug
        /\ \E i \in 1 .. Len(cn_in) : cn_in[i][1] = cn_in[i][2]

\* a call of conc_ratio that returns, returns NaN exactly when the list is
\* empty or is N >= 2 intervals of zero length, and a value in [0, 1] otherwise
ReturnedRatioInRangeOrNaN ==
    cn_ratio.kind = "ret" =>
        IF Len(cn_in) # 1 /\ UnionMeasure = 0 THEN IsNaN(cn_ratio.val)
        ELSE /\ ~IsNaN(cn_ratio.val)
             /\ FLeq(ToDouble(0), cn_ratio.val)
             /\ FLeq(cn_ratio.val, ToDouble(1))

(***************************************************************************)
(* nested_concurrency and nconc_ratio (util.hpp 130-192, 223-236)          *)
(***************************************************************************)
\* events.emplace_back(i->first, START); events.emplace_back(i->second, STOP);
\* for every interval of list in turn, with the two event types given
tagged_events(list, start_type, stop_type) ==
    [k \in 1 .. 2 * Len(list) |->
        IF k % 2 = 1 THEN [stamp |-> list[(k + 1) \div 2][1], type |-> start_type]
        ELSE [stamp |-> list[k \div 2][2], type |-> stop_type]]

\* the events of the outer intervals, then those of the inner intervals
nested_events(outer, inner) ==
    tagged_events(outer, "STARTO", "STOPO") \o tagged_events(inner, "STARTI", "STOPI")

\* the loop over the sorted events from position k on.  ocount and icount
\* are size_t: a negative value -n here stands for 2^64 - n.  last_stamp is
\* events.front().stamp before the first event, the previous stamp after.
RECURSIVE nested_sweep(_, _, _, _, _, _)
nested_sweep(es, k, ocount, icount, sum_top_, ndebug) ==
    IF k > Len(es)
    THEN (IF ~ndebug /\ (ocount # 0 \/ icount # 0) THEN Aborted
          ELSE Returned(sum_top_))
    ELSE LET last_stamp == IF k = 1 THEN es[1].stamp ELSE es[k - 1].stamp
             acc == sum_top_ + ocount * icount * (es[k].stamp - last_stamp)
         IN  IF es[k].type = "STARTO"
             THEN nested_sweep(es, k + 1, ocount + 1, icount, acc, ndebug)
             ELSE IF es[k].type = "STOPO"
             THEN (IF ~ndebug /\ ocount = 0 THEN Aborted
                   ELSE nested_sweep(es, k + 1, ocount - 1, icount, acc, ndebug))
             ELSE IF es[k].type = "STARTI"
             THEN nested_sweep(es, k + 1, ocount, icount + 1, acc, ndebug)
             ELSE (IF ~ndebug /\ icount = 0 THEN Aborted
                   ELSE nested_sweep(es, k + 1, ocount, icount - 1, acc, ndebug))

\* nested_concurrency(starto, stopo, starti, stopi): the set of outcomes
\* the call can have; sum_bottom is the sum of the inner lengths
nested_concurrency(outer, inner, ndebug) ==
    IF inner = << >> THEN {Returned(<<0, 0>>)}
    ELSE {LET o == nested_sweep(s, 1, 0, 0, 0, ndebug)
          IN  IF o.kind = "ret"
              THEN Returned(<<o.val, sum_top(inner, Len(inner))>>)
              ELSE o :
          s \in std_sort(nested_events(outer, inner))}

\* nconc_ratio(starto, stopo, starti, stopi): the set of outcomes
nconc_ratio_raw(outer, inner, ndebug) ==
    LET ocount == Len(outer) IN
    IF ocount = 0 THEN {Returned(ToDouble(0))}
    ELSE {IF conc.kind = "ret"
          THEN Returned(FDiv(ToDouble(conc.val[1]), ToDouble(conc.val[2])))
          ELSE conc :
          conc \in nested_concurrency(outer, inner, ndebug)}
nconc_ratio(outer, inner, ndebug) ==
    LET ocount == Len(outer) IN
    IF ocount = 0 THEN {Returned(ToDouble(0))}
    ELSE {IF conc.kind = "ret"
          THEN LET raw_ratio == FDiv(ToDouble(conc.val[1]), ToDouble(conc.val[2]))
               IN  IF ocount = 1 THEN Returned(raw_ratio)
                   ELSE Returned(remap(raw_ratio, ToDouble(1), ToDouble(ocount),
                                       ToDouble(0), ToDouble(1)))
          ELSE conc :
          conc \in nested_concurrency(outer, inner, ndebug)}

(***************************************************************************)
(* SpecNested: nested_concurrency and nconc_ratio called on drawn inputs   *)
(***************************************************************************)
\* the <<outer, inner>> inputs of TEST_CASE nested_concurrency
NestedUnitTestInputs ==
    { << << >>, << >> >>,
      << <<<<0, 1>>>>, <<<<0, 1>>>> >>,
      << <<<<0, 10>>>>, <<<<0, 1>>, <<1, 2>>>> >>,
      << <<<<5, 10>>>>, <<<<0, 1>>, <<1, 2>>>> >>,
      << <<<<0, 10>>, <<0, 2>>>>, <<<<0, 1>>, <<1, 2>>>> >>,
      << <<<<0, 10>>, <<0, 1>>>>, <<<<0, 1>>, <<1, 2>>>> >> }

\* the four timestamps run_test leaves in the result of one thread: read in
\* the order ostart_ts, istart_ts, iend_ts, oend_ts from a counter that does
\* not go back, the workload running between istart_ts and iend_ts
ThreadStamps ==
    {st \in [ostart_ts : Stamps, istart_ts : Stamps,
            iend_ts : Stamps, oend_ts : Stamps] :
        /\ st.ostart_ts <= st.istart_ts
        /\ st.istart_ts < st.iend_ts
        /\ st.iend_ts <= st.oend_ts}

\* the results of the threads of one spec: every ostart_ts and iend_ts is
\* read before the stop barrier breaks, every oend_ts after it
ResultLists ==
    {rs \in UNION {[1 .. n -> ThreadStamps] : n \in 1 .. MaxNested + 1} :
        \A i, j \in DOMAIN rs : /\ rs[i].ostart_ts <= rs[j].oend_ts
                                /\ rs[i].iend_ts <= rs[j].oend_ts}

\* transformv(results, r -> make_pair(r.inner.ostart_ts, r.inner.oend_ts))
orange(results) ==
    [i \in DOMAIN results |-> <<results[i].ostart_ts, results[i].oend_ts>>]

\* transformv(results, r -> make_pair(r.inner.istart_ts, r.inner.iend_ts))
irange(results) ==
    [i \in DOMAIN results |-> <<results[i].istart_ts, results[i].iend_ts>>]

\* the <<outer, inner>> arguments of nconc_ratio in get_overlap3
Overlap3Inputs == {<<orange(rs), irange(rs)>> : rs \in ResultLists}

NestedLists == UNION {[1 .. n -> Intervals] : n \in 0 .. MaxNested}

NestedInputs ==
    (NestedLists \X NestedLists)
    \cup NestedUnitTestInputs
    \cup {<<Copies(n), Copies(1)>> : n \in 1 .. MaxCopies}
    \cup Overlap3Inputs

InitNested ==
    /\ cn_ndebug \in BOOLEAN
    /\ \E in \in NestedInputs : nc_outer = in[1] /\ nc_inner = in[2]
    /\ nc_ret = NotCalled
    /\ nc_ratio = NotCalled
    /\ TrialIdle
    /\ AuxIdle
    /\ cn_in = << >>
    /\ cn_ret = NotCalled
    /\ cn_ret2 = NotCalled
    /\ cn_ratio = NotCalled
    /\ BarrierIdle
    /\ MainIdle
    /\ ThreadsIdle

\* nested_concurrency(outer.begin(), outer.end(), inner.begin(), inner.end())
NC_NestedConcurrency ==
    /\ nc_ret = NotCalled
    /\ nc_ret' \in nested_concurrency(nc_outer, nc_inner, cn_ndebug)
    /\ UNCHANGED <<cn_ndebug, cn_in, cn_ret, cn_ret2, cn_ratio,
                   nc_outer, nc_inner, nc_ratio, trialVars, auxVars, barVars,
                   mainVars, thrVars>>

\* nconc_ratio(outer.begin(), outer.end(), inner.begin(), inner.end())
NC_NconcRatio ==
    /\ nc_ratio = NotCalled
    /\ nc_ratio' \in nconc_ratio(nc_outer, nc_inner, cn_ndebug)
    /\ UNCHANGED <<cn_ndebug, cn_in, cn_ret, cn_ret2, cn_ratio,
                   nc_outer, nc_inner, nc_ret, trialVars, auxVars, barVars,
                   mainVars, thrVars>>

NextNested ==
    \/ NC_NestedConcurrency
    \/ NC_NconcRatio

SpecNested == InitNested /\ [][NextNested]_vars

(***************************************************************************)
(* Claims about nested_concurrency and nconc_ratio                         *)
(***************************************************************************)
\* the timestamps covered by interval iv: t stands for the cell [t, t+1)
Cells(iv) == {t \in iv[1] .. (iv[2] - 1) : TRUE}

\* the sum over time of (active outer intervals x active inner intervals)
WeightedSum ==
    Cardinality({x \in (1 .. Len(nc_outer)) \X (1 .. Len(nc_inner)) \X
                       UNION {Cells(nc_inner[i]) : i \in 1 .. Len(nc_inner)} :
                    /\ x[3] \in Cells(nc_outer[x[1]])
                    /\ x[3] \in Cells(nc_inner[x[2]])})

\* the sum of the lengths of the inner intervals
InnerTotal ==
    Cardinality({x \in (1 .. Len(nc_inner)) \X
                       UNION {Cells(nc_inner[i]) : i \in 1 .. Len(nc_inner)} :
                    x[2] \in Cells(nc_inner[x[1]])})

\* C11: for every outer list and every non-empty inner list of intervals
\* with start <= end, nested_concurrency returns (weighted_sum, inner_total):
\* the sum over time of (active outer x active inner) and the sum of the
\* inner lengths (inner intervals outside every outer interval add 0 to the
\* first and their length to the second); an empty inner list returns (0, 0).
C11_NestedPair ==
    nc_ret # NotCalled =>
        IF nc_inner = << >> THEN nc_ret = Returned(<<0, 0>>)
        ELSE nc_ret = Returned(<<WeightedSum, InnerTotal>>)

\* weighted_sum / inner_total, in double arithmetic
NestedRaw == FDiv(ToDouble(WeightedSum), ToDouble(InnerTotal))

\* C12: nconc_ratio returns 0.0 when the outer list is empty, returns
\* weighted_sum/inner_total unremapped when the outer list has exactly one
\* interval, and for outer_count >= 2 returns
\* (weighted_sum/inner_total - 1)/(outer_count - 1).
C12_NestedRatioValue ==
    nc_ratio # NotCalled =>
        IF Len(nc_outer) = 0 THEN nc_ratio = Returned(ToDouble(0))
        ELSE IF Len(nc_outer) = 1 THEN nc_ratio = Returned(NestedRaw)
        ELSE nc_ratio = Returned(FDiv(FSub(NestedRaw, ToDouble(1)),
                                      ToDouble(Len(nc_outer) - 1)))

\* C13: for every outer list of outer_count >= 2 intervals and every inner
\* list with positive total length, inner_total <= weighted_sum <=
\* outer_count x inner_total, so that nconc_ratio lies in [0,1].
C13_NestedRatioInUnitRange ==
    (nc_ratio # NotCalled /\ Len(nc_outer) >= 2 /\ InnerTotal > 0) =>
        /\ InnerTotal <= WeightedSum
        /\ WeightedSum <= Len(nc_outer) * InnerTotal
        /\ nc_ratio.kind = "ret"
        /\ ~IsNaN(nc_ratio.val)
        /\ FLeq(ToDouble(0), nc_ratio.val)
        /\ FLeq(nc_ratio.val, ToDouble(1))

(***************************************************************************)
(* What the nested calls that do return, return (invariants of SpecNested) *)
(***************************************************************************)
\* a call of nested_concurrency that returns, returns the pair of C11
ReturnedNestedPair ==
    nc_ret.kind = "ret" =>
        nc_ret.val = IF nc_inner = << >> THEN <<0, 0>>
                     ELSE <<WeightedSum, InnerTotal>>

\* a nested call ends in abort() only in a build with assertions and only
\* on an input that holds a zero-length interval
NestedAbortOnlyWithZeroLength ==
    (Aborted \in {nc_ret, nc_ratio}) =>
        /\ ~cn_ndebug
        /\ \E iv \in Range(nc_outer) \cup Range(nc_inner) : iv[1] = iv[2]

\* the weighted sum is at most outer_count x inner_total, and a call of
\* nconc_ratio that returns for outer_count >= 2 and a positive inner total
\* returns a value in [-1/(outer_count - 1), 1]
ReturnedNestedRatioBounds ==
    /\ WeightedSum <= Len(nc_outer) * InnerTotal
    /\ (nc_ratio.kind = "ret" /\ Len(nc_outer) >= 2 /\ InnerTotal > 0) =>
          /\ ~IsNaN(nc_ratio.val)
          /\ FLeq(FDiv(ToDouble(-1), ToDouble(Len(nc_outer) - 1)), nc_ratio.val)
          /\ FLeq(nc_ratio.val, ToDouble(1))

(***************************************************************************)
(* SpecTrial: the timed passes of run_test<RdtscClock> in one thread       *)
(* (avx-turbo.cpp 393-407), with the values of the clock.  Time passes in  *)
(* the calls of the workload: a call of n iterations takes c + k*n plus a  *)
(* delay of 0 .. MaxJitter.                                                *)
(***************************************************************************)
\* the values of a uint64_t: RdtscClock::now_t and RdtscClock::delta_t
TscModulus == Pow2(TscBits)

\* a - b in uint64_t
USub(a, b) == (a - b + TscModulus) % TscModulus

sample_of_long_call(t0, t1, t2) == USub(t2, t1)
\* results[r] = (t2 - t1) - (t1 - t0);
sample(t0, t1, t2) == USub(USub(t2, t1), USub(t1, t0))

\* what a call func(n) takes without delay
call_time(n) == tr_cost.c + tr_cost.k * n

\* the nanoseconds of a second (1000000000 in the build)
NanosPerSecond == 1000

\* what get_tsc_freq() can return, in ticks per second: the calibration loop
\* measures, and two evaluations need not agree
FreqsDrawn == {NanosPerSecond, 2 * NanosPerSecond}

\* static double tsc_to_nanos = 1000000000.0 / tsc_freq();
tsc_to_nanos(freq) == FDiv(ToDouble(NanosPerSecond), ToDouble(freq))

\* std::sort on uint64_t: seq with e put before its first larger element
RECURSIVE insert_sorted(_, _)
insert_sorted(seq, e) ==
    IF seq = << >> THEN <<e>>
    ELSE IF e <= Head(seq) THEN <<e>> \o seq
    ELSE <<Head(seq)>> \o insert_sorted(Tail(seq), e)

RECURSIVE sort_u64(_)
sort_u64(seq) ==
    IF seq = << >> THEN << >>
    ELSE insert_sorted(sort_u64(Tail(seq)), Head(seq))

\* the positions of run_test and of the statements of operator() around it
TrialPositions ==
    {"start_ts", "ostart_ts", "pass", "t0", "t1", "t2", "pass_end", "stop_inc",
     "drain_chk", "drain_func", "oend_ts", "end_ts", "aperf", "done", "aborted"}

\* the timestamps of struct result and inner_result, in the order of the
\* statements that set them (-1: not set)
StampFields == <<"start_ts", "ostart_ts", "istart_ts", "iend_ts", "oend_ts", "end_ts">>

\* aperf_ghz() : ..., state(STOPPED)
aperf_ghz == [state |-> "STOPPED", failed |-> {}]

\* aperf_ghz::start(): assert(state == STOPPED); state = STARTED; the reads
timer_start(tm) ==
    [state |-> "STARTED",
     failed |-> IF tm.state = "STOPPED" THEN tm.failed ELSE tm.failed \cup {"start"}]

timer_stop_left_started(tm) ==
    [state |-> tm.state,
     failed |-> IF tm.state = "STARTED" THEN tm.failed ELSE tm.failed \cup {"stop"}]
\* aperf_ghz::stop(): assert(state == STARTED); the reads; state = STOPPED
timer_stop(tm) ==
    [state |-> "STOPPED",
     failed |-> IF tm.state = "STARTED" THEN tm.failed ELSE tm.failed \cup {"stop"}]

\* am_ratio() / mt_ratio(): assert(state == STOPPED)
timer_ratio(tm, name) ==
    [state |-> tm.state,
     failed |-> IF tm.state = "STOPPED" THEN tm.failed ELSE tm.failed \cup {name}]

\* outer.start() / outer.stop() as the log has them: the call, and the MSR
\* reads of mperf() and aperf() when outer is the aperf_ghz
logged_call(name, use_aperf) ==
    IF use_aperf THEN <<name, "msr", "msr">> ELSE <<name>>

\* what read_msr() can return to is_supported(): 0, the negative errno of a
\* failed open, the errno of a failed pread
MsrResults == {0, -13, 5}

\* aperf_ghz::is_supported(): both reads on cpu 1 return 0
is_supported(mperf_res, aperf_res) == mperf_res = 0 /\ aperf_res = 0

\* the counter deltas stop() has left in the timer (non-zero, as am_ratio()
\* and mt_ratio() assert): the core unhalted at the rate of the counter, or
\* halted half of the time and at twice the rate
CounterDeltas ==
    {[mperf_value |-> 1, aperf_value |-> 1, tsc_value |-> 1],
     [mperf_value |-> 1, aperf_value |-> 2, tsc_value |-> 2]}

\* what am_ratio() and mt_ratio() return for them:
\* (double)aperf_value / mperf_value and (double)mperf_value / tsc_value
RatiosDrawn ==
    {[aperf_am |-> FDiv(ToDouble(d.aperf_value), ToDouble(d.mperf_value)),
      aperf_mt |-> FDiv(ToDouble(d.mperf_value), ToDouble(d.tsc_value))] :
        d \in CounterDeltas}

\* res.aperf_am = use_aperf ? aperf_timer.am_ratio() : 0.0;  (and aperf_mt)
reported_ratio_unguarded(use_aperf, ratio) == ratio
reported_ratio(use_aperf, ratio) == IF use_aperf THEN ratio ELSE ToDouble(0)

\* the hooks of run_test: dirty_it() under --dirty-upper, dirty_it16()
\* under --dirty-upper16
Hooks == {"dirty_it", "dirty_it16"}

\* if (arg_dirty) { dirty_it(); }  if (arg_dirty16) { dirty_it16(); }
dirty_calls_none(enabled) == << >>
dirty_calls(enabled) ==
    (IF "dirty_it" \in enabled THEN <<"dirty_it">> ELSE << >>)
    \o (IF "dirty_it16" \in enabled THEN <<"dirty_it16">> ELSE << >>)

\* for (size_t w = 0; w < WARMUP + 1; w++): another pass follows pass w
pass_follows_never(w_) == FALSE
pass_follows(w_) == w_ + 1 < WARMUP + 1

\* (uint64_t) of a non-negative double: the fraction is dropped
to_uint64(x) == x.num \div x.den

\* CLOCK::to_nanos(diff), stored into the uint64_t array nanos
to_nanos(diff, freq) == to_uint64(FMul(ToDouble(diff), tsc_to_nanos(freq)))

\* DescriptiveStats::getMedian() of get_stats(first, last): the middle
\* element of the sorted values, the mean of the two middle elements when
\* their number is even
getMedian(values) ==
    LET sorted == sort_u64(values)
        n == Len(values)
    IN  IF n % 2 = 1 THEN ToDouble(sorted[(n + 1) \div 2])
        ELSE FDiv(FAdd(ToDouble(sorted[n \div 2]), ToDouble(sorted[n \div 2 + 1])),
                  ToDouble(2))

\* result.mops = ((double)iters / stats.getMedian());
mops(results, iters, freq) ==
    FDiv(ToDouble(iters),
         getMedian([i \in 1 .. Len(results) |-> to_nanos(results[i], freq)]))

InitTrial ==
    /\ tr_cost \in [c : 0 .. MaxCost, k : 0 .. MaxCost]
    /\ tr_iters \in {IterStep * h : h \in 1 .. MaxHundreds}
    /\ tr_cost.c + tr_cost.k * 2 * tr_iters + MaxJitter < TscModulus
    /\ tr_tsc \in {0, TscModulus - 1}
    /\ tr_freq \in FreqsDrawn
    /\ tr_use_aperf \in {is_supported(m, a) : m \in MsrResults, a \in MsrResults}
    /\ tr_pc = "start_ts"
    /\ tr_w = 0
    /\ tr_r = 0
    /\ tr_t = <<0, 0, 0>>
    /\ tr_results = [i \in 1 .. TRIES |-> 0]
    /\ tr_took = [i \in 1 .. TRIES |-> <<0, 0>>]
    /\ tr_res = [f \in Range(StampFields) |-> -1]
    /\ tr_mops = NotCalled
    /\ tr_timer = aperf_ghz
    /\ tr_elapsed = 0
    /\ tr_drain = 0
    /\ tr_log = << >>
    /\ tr_hist = << >>
    /\ tr_ratios = [aperf_am |-> NaN, aperf_mt |-> NaN]
    /\ tr_dirty = {}
    /\ AnalysisIdle
    /\ AuxIdle
    /\ BarrierIdle
    /\ MainIdle
    /\ ThreadsIdle

\* d ticks of the counter pass
Elapse(d) ==
    /\ tr_tsc' = (tr_tsc + d) % TscModulus
    /\ tr_elapsed' = tr_elapsed + d

\* res.start_ts = RdtscClock::now();  (the thread has left the start
\* barrier, aperf_timer is constructed)
TR_StartTs ==
    /\ tr_pc = "start_ts"
    /\ tr_res' = [tr_res EXCEPT !["start_ts"] = tr_tsc]
    /\ tr_pc' = "ostart_ts"
    /\ UNCHANGED <<tr_cost, tr_iters, tr_tsc, tr_freq, tr_use_aperf, tr_w, tr_r,
                   tr_t, tr_results, tr_took, tr_mops, tr_timer, tr_elapsed,
                   tr_drain, tr_log, tr_hist,
                   tr_ratios, tr_dirty,
                   cn_ndebug, cn_in, cn_ret, cn_ret2, cn_ratio, nestVars,
                   auxVars, barVars, mainVars, thrVars>>

\* run_test up to the loop of the passes: the dirty_it hooks,
\* result.ostart_ts = RdtscClock::now(); w = 0
TR_OStartTs ==
    /\ tr_pc = "ostart_ts"
    /\ tr_log' = tr_log \o dirty_calls(tr_dirty)
    /\ tr_res' = [tr_res EXCEPT !["ostart_ts"] = tr_tsc]
    /\ tr_w' = 0
    /\ tr_pc' = IF 0 < WARMUP + 1 THEN "pass" ELSE "stop_inc"
    /\ UNCHANGED <<tr_cost, tr_iters, tr_tsc, tr_freq, tr_use_aperf, tr_r,
                   tr_t, tr_results, tr_took, tr_mops, tr_timer, tr_elapsed,
                   tr_drain, tr_hist,
                   tr_ratios, tr_dirty,
                   cn_ndebug, cn_in, cn_ret, cn_ret2, cn_ratio, nestVars,
                   auxVars, barVars, mainVars, thrVars>>

\* result.istart_ts = RdtscClock::now(); outer.start();
\* for (size_t r = 0; r < TRIES; ...     The MSR reads of start() take time.
TR_PassBegin ==
    /\ tr_pc = "pass"
    /\ tr_res' = [tr_res EXCEPT !["istart_ts"] = tr_tsc]
    /\ tr_log' = tr_log \o logged_call("start", tr_use_aperf)
    /\ IF tr_use_aperf
       THEN /\ tr_timer' = timer_start(tr_timer)
            /\ \E delay \in 0 .. MaxJitter : Elapse(delay)
       ELSE UNCHANGED <<tr_timer, tr_tsc, tr_elapsed>>
    /\ tr_r' = 0
    /\ tr_pc' = IF tr_use_aperf /\ tr_timer.state # "STOPPED" /\ ~cn_ndebug
                THEN "aborted"
                ELSE IF 0 < TRIES THEN "t0" ELSE "pass_end"
    /\ UNCHANGED <<tr_cost, tr_iters, tr_freq, tr_use_aperf, tr_w,
                   tr_t, tr_results, tr_took, tr_mops, tr_drain, tr_hist,
                   tr_ratios, tr_dirty,
                   cn_ndebug, cn_in, cn_ret, cn_ret2, cn_ratio, nestVars,
                   auxVars, barVars, mainVars, thrVars>>

\* auto t0 = CLOCK::now();
TR_T0 ==
    /\ tr_pc = "t0"
    /\ tr_t' = <<tr_tsc, 0, 0>>
    /\ tr_log' = Append(tr_log, "t0")
    /\ tr_pc' = "t1"
    /\ UNCHANGED <<tr_cost, tr_iters, tr_tsc, tr_freq, tr_use_aperf, tr_w, tr_r,
                   tr_results, tr_took, tr_res, tr_mops, tr_timer, tr_elapsed,
                   tr_drain, tr_hist,
                   tr_ratios, tr_dirty,
                   cn_ndebug, cn_in, cn_ret, cn_ret2, cn_ratio, nestVars,
                   auxVars, barVars, mainVars, thrVars>>

\* func(iters); auto t1 = CLOCK::now();
TR_T1 ==
    /\ tr_pc = "t1"
    /\ \E delay \in 0 .. MaxJitter :
          LET d1 == call_time(tr_iters) + delay IN
          /\ Elapse(d1)
          /\ tr_took' = [tr_took EXCEPT ![tr_r + 1] = <<d1, 0>>]
    /\ tr_t' = [tr_t EXCEPT ![2] = tr_tsc']
    /\ tr_log' = tr_log \o <<"func", "t1">>
    /\ tr_pc' = "t2"
    /\ UNCHANGED <<tr_cost, tr_iters, tr_freq, tr_use_aperf, tr_w, tr_r,
                   tr_results, tr_res, tr_mops, tr_timer, tr_drain, tr_hist,
                   tr_ratios, tr_dirty,
                   cn_ndebug, cn_in, cn_ret, cn_ret2, cn_ratio, nestVars,
                   auxVars, barVars, mainVars, thrVars>>

\* func(iters * 2); auto t2 = CLOCK::now();
\* results[r] = (t2 - t1) - (t1 - t0); r++
TR_T2 ==
    /\ tr_pc = "t2"
    /\ \E delay \in 0 .. MaxJitter :
          LET d2 == call_time(tr_iters * 2) + delay IN
          /\ Elapse(d2)
          /\ tr_took' = [tr_took EXCEPT ![tr_r + 1][2] = d2]
    /\ tr_results' = [tr_results EXCEPT
                         ![tr_r + 1] = sample(tr_t[1], tr_t[2], tr_tsc')]
    /\ tr_t' = <<0, 0, 0>>
    /\ tr_log' = tr_log \o <<"func", "t2">>
    /\ tr_r' = tr_r + 1
    /\ tr_pc' = IF tr_r + 1 < TRIES THEN "t0" ELSE "pass_end"
    /\ UNCHANGED <<tr_cost, tr_iters, tr_freq, tr_use_aperf, tr_w,
                   tr_res, tr_mops, tr_timer, tr_drain, tr_hist,
                   tr_ratios, tr_dirty,
                   cn_ndebug, cn_in, cn_ret, cn_ret2, cn_ratio, nestVars,
                   auxVars, barVars, mainVars, thrVars>>

\* outer.stop(); result.iend_ts = RdtscClock::now(); w++
\* The MSR reads of stop() take time.  (tr_hist is history: what the pass
\* that ends has measured.)
TR_PassEnd ==
    /\ tr_pc = "pass_end"
    /\ tr_log' = tr_log \o logged_call("stop", tr_use_aperf)
    /\ IF tr_use_aperf
       THEN /\ tr_timer' = timer_stop(tr_timer)
            /\ \E delay \in 0 .. MaxJitter : Elapse(delay)
       ELSE UNCHANGED <<tr_timer, tr_tsc, tr_elapsed>>
    /\ tr_res' = [tr_res EXCEPT !["iend_ts"] = tr_tsc']
    /\ tr_hist' = Append(tr_hist, [istart_ts |-> tr_res["istart_ts"],
                                   iend_ts |-> tr_tsc',
                                   trials |-> tr_r,
                                   took |-> tr_took])
    /\ tr_w' = tr_w + 1
    /\ tr_r' = 0
    /\ tr_pc' = IF tr_use_aperf /\ tr_timer.state # "STARTED" /\ ~cn_ndebug
                THEN "aborted"
                ELSE IF pass_follows(tr_w) THEN "pass" ELSE "stop_inc"
    /\ UNCHANGED <<tr_cost, tr_iters, tr_freq, tr_use_aperf,
                   tr_t, tr_results, tr_took, tr_mops, tr_drain,
                   tr_ratios, tr_dirty,
                   cn_ndebug, cn_in, cn_ret, cn_ret2, cn_ratio, nestVars,
                   auxVars, barVars, mainVars, thrVars>>

\* for (barrier->increment(); ...
TR_StopInc ==
    /\ tr_pc = "stop_inc"
    /\ tr_log' = Append(tr_log, "increment")
    /\ tr_pc' = "drain_chk"
    /\ UNCHANGED <<tr_cost, tr_iters, tr_tsc, tr_freq, tr_use_aperf, tr_w, tr_r,
                   tr_t, tr_results, tr_took, tr_res, tr_mops, tr_timer,
                   tr_elapsed, tr_drain, tr_hist,
                   tr_ratios, tr_dirty,
                   cn_ndebug, cn_in, cn_ret, cn_ret2, cn_ratio, nestVars,
                   auxVars, barVars, mainVars, thrVars>>

\* for (...; !barrier->is_broken();): the other threads of the spec have
\* all arrived, or (at most MaxDrain times) they have not
TR_DrainPoll ==
    /\ tr_pc = "drain_chk"
    /\ tr_log' = Append(tr_log, "is_broken")
    /\ \E broken \in BOOLEAN :
          /\ ~broken => tr_drain < MaxDrain
          /\ tr_pc' = IF broken THEN "oend_ts" ELSE "drain_func"
    /\ UNCHANGED <<tr_cost, tr_iters, tr_tsc, tr_freq, tr_use_aperf, tr_w, tr_r,
                   tr_t, tr_results, tr_took, tr_res, tr_mops, tr_timer,
                   tr_elapsed, tr_drain, tr_hist,
                   tr_ratios, tr_dirty,
                   cn_ndebug, cn_in, cn_ret, cn_ret2, cn_ratio, nestVars,
                   auxVars, barVars, mainVars, thrVars>>

\* the loop body: func(iters);
TR_DrainFunc ==
    /\ tr_pc = "drain_func"
    /\ \E delay \in 0 .. MaxJitter : Elapse(call_time(tr_iters) + delay)
    /\ tr_drain' = tr_drain + 1
    /\ tr_log' = Append(tr_log, "func")
    /\ tr_pc' = "drain_chk"
    /\ UNCHANGED <<tr_cost, tr_iters, tr_freq, tr_use_aperf, tr_w, tr_r,
                   tr_t, tr_results, tr_took, tr_res, tr_mops, tr_timer,
                   tr_hist,
                   tr_ratios, tr_dirty,
                   cn_ndebug, cn_in, cn_ret, cn_ret2, cn_ratio, nestVars,
                   auxVars, barVars, mainVars, thrVars>>

\* result.oend_ts = RdtscClock::now(); nanos, get_stats, result.mops;
\* return result;
TR_OEndTs ==
    /\ tr_pc = "oend_ts"
    /\ tr_res' = [tr_res EXCEPT !["oend_ts"] = tr_tsc]
    /\ tr_mops' = Returned(mops(tr_results, tr_iters, tr_freq))
    /\ tr_pc' = "end_ts"
    /\ UNCHANGED <<tr_cost, tr_iters, tr_tsc, tr_freq, tr_use_aperf, tr_w, tr_r,
                   tr_t, tr_results, tr_took, tr_timer, tr_elapsed, tr_drain,
                   tr_log, tr_hist,
                   tr_ratios, tr_dirty,
                   cn_ndebug, cn_in, cn_ret, cn_ret2, cn_ratio, nestVars,
                   auxVars, barVars, mainVars, thrVars>>

TR_EndTs_early ==
    /\ tr_pc = "end_ts"
    /\ tr_res' = [tr_res EXCEPT !["end_ts"] = tr_res["start_ts"]]
    /\ tr_pc' = "aperf"
    /\ UNCHANGED <<tr_cost, tr_iters, tr_tsc, tr_freq, tr_use_aperf, tr_w, tr_r,
                   tr_t, tr_results, tr_took, tr_mops, tr_timer, tr_elapsed,
                   tr_drain, tr_log, tr_hist,
                   tr_ratios, tr_dirty,
                   cn_ndebug, cn_in, cn_ret, cn_ret2, cn_ratio, nestVars,
                   auxVars, barVars, mainVars, thrVars>>
\* res.end_ts = RdtscClock::now();
TR_EndTs ==
    /\ tr_pc = "end_ts"
    /\ tr_res' = [tr_res EXCEPT !["end_ts"] = tr_tsc]
    /\ tr_pc' = "aperf"
    /\ UNCHANGED <<tr_cost, tr_iters, tr_tsc, tr_freq, tr_use_aperf, tr_w, tr_r,
                   tr_t, tr_results, tr_took, tr_mops, tr_timer, tr_elapsed,
                   tr_drain, tr_log, tr_hist,
                   tr_ratios, tr_dirty,
                   cn_ndebug, cn_in, cn_ret, cn_ret2, cn_ratio, nestVars,
                   auxVars, barVars, mainVars, thrVars>>

\* res.aperf_am = use_aperf ? aperf_timer.am_ratio() : 0.0;
\* res.aperf_mt = use_aperf ? aperf_timer.mt_ratio() : 0.0;
TR_Aperf ==
    /\ tr_pc = "aperf"
    /\ \E ratios \in RatiosDrawn :
          tr_ratios' = [f \in {"aperf_am", "aperf_mt"} |->
                           reported_ratio(tr_use_aperf, ratios[f])]
    /\ IF tr_use_aperf
       THEN /\ tr_timer' = timer_ratio(timer_ratio(tr_timer, "am_ratio"), "mt_ratio")
            /\ tr_log' = tr_log \o <<"am_ratio", "mt_ratio">>
            /\ tr_pc' = IF tr_timer.state # "STOPPED" /\ ~cn_ndebug
                        THEN "aborted" ELSE "done"
       ELSE /\ tr_pc' = "done"
            /\ UNCHANGED <<tr_timer, tr_log>>
    /\ UNCHANGED <<tr_cost, tr_iters, tr_tsc, tr_freq, tr_use_aperf, tr_w, tr_r,
                   tr_t, tr_results, tr_took, tr_res, tr_mops, tr_elapsed,
                   tr_drain, tr_hist,
                   tr_dirty,
                   cn_ndebug, cn_in, cn_ret, cn_ret2, cn_ratio, nestVars,
                   auxVars, barVars, mainVars, thrVars>>

NextTrial ==
    \/ TR_StartTs
    \/ TR_OStartTs
    \/ TR_PassBegin
    \/ TR_T0
    \/ TR_T1
    \/ TR_T2
    \/ TR_PassEnd
    \/ TR_StopInc
    \/ TR_DrainPoll
    \/ TR_DrainFunc
    \/ TR_OEndTs
    \/ TR_EndTs
    \/ TR_Aperf

SpecTrial == InitTrial /\ [][NextTrial]_vars

\* the same thread with any of --dirty-upper and --dirty-upper16 given, for
\* one workload on one counter
InitDirty ==
    /\ tr_cost = [c |-> 1, k |-> 1]
    /\ tr_iters = IterStep
    /\ tr_tsc = 0
    /\ tr_freq = NanosPerSecond
    /\ tr_use_aperf \in {is_supported(m, a) : m \in MsrResults, a \in MsrResults}
    /\ tr_dirty \in SUBSET Hooks
    /\ tr_pc = "start_ts"
    /\ tr_w = 0
    /\ tr_r = 0
    /\ tr_t = <<0, 0, 0>>
    /\ tr_results = [i \in 1 .. TRIES |-> 0]
    /\ tr_took = [i \in 1 .. TRIES |-> <<0, 0>>]
    /\ tr_res = [f \in Range(StampFields) |-> -1]
    /\ tr_mops = NotCalled
    /\ tr_timer = aperf_ghz
    /\ tr_elapsed = 0
    /\ tr_drain = 0
    /\ tr_log = << >>
    /\ tr_hist = << >>
    /\ tr_ratios = [aperf_am |-> NaN, aperf_mt |-> NaN]
    /\ AnalysisIdle
    /\ AuxIdle
    /\ BarrierIdle
    /\ MainIdle
    /\ ThreadsIdle

SpecDirty == InitDirty /\ [][NextTrial]_vars

\* the slots of results that hold a sample of the pass that is running (or
\* of the last pass)
StoredSlots ==
    IF tr_pc \in {"t0", "t1", "t2"} \/ (tr_pc = "pass" /\ tr_w = 0)
          \/ tr_pc \in {"start_ts", "ostart_ts"}
    THEN 1 .. tr_r
    ELSE 1 .. TRIES

\* C14: if a workload call with n iterations takes time c + k*n, every trial
\* sample that run_test computes as (t2 - t1) - (t1 - t0) from one call at N
\* iterations followed by one call at 2N iterations equals k*N, for every c.
C14_SampleIsPerIterationCost ==
    \A i \in StoredSlots :
        (tr_took[i] = <<call_time(tr_iters), call_time(2 * tr_iters)>>)
            => tr_results[i] = tr_cost.k * tr_iters

\* a sample was stored for a workload with a fixed overhead and a
\* per-iteration cost, both calls taking exactly c + k*n, while the counter
\* wrapped around during the trial
C14_Witness ==
    /\ tr_cost.c > 0
    /\ tr_cost.k > 0
    /\ tr_pc = "pass_end"
    /\ tr_took[TRIES] = <<call_time(tr_iters), call_time(2 * tr_iters)>>
    /\ tr_results[TRIES] = tr_cost.k * tr_iters
    /\ tr_tsc < call_time(2 * tr_iters)

(***************************************************************************)
(* main from its first statement: the arguments, the hardware, the specs   *)
(* (avx-turbo.cpp 787-853, 462-561)                                        *)
(***************************************************************************)
\* the catalog FUNCS_X (avx-turbo.cpp 62-118), cut to one workload that
\* every CPU runs and one that needs AVX-512F
ALL_FUNCS ==
    << [id |-> "pause_only", isa |-> {"BASE"}],
       [id |-> "avx512_iadd", isa |-> {"AVX512F"}] >>

nullptr == [id |-> "", isa |-> {}]

find_one_test_or_first(id) ==
    IF \E k \in 1 .. Len(ALL_FUNCS) : ALL_FUNCS[k].id = id
    THEN ALL_FUNCS[CHOOSE k \in 1 .. Len(ALL_FUNCS) : ALL_FUNCS[k].id = id]
    ELSE ALL_FUNCS[1]

\* find_one_test: the entry whose id is exactly the text, or nullptr
find_one_test(id) ==
    IF \E k \in 1 .. Len(ALL_FUNCS) : ALL_FUNCS[k].id = id
    THEN ALL_FUNCS[CHOOSE k \in 1 .. Len(ALL_FUNCS) : ALL_FUNCS[k].id = id]
    ELSE nullptr

\* should_run: (t.isa & isas_supported) == t.isa
should_run(t, isas) == (t.isa \cap isas) = t.isa

\* std::atoi on the texts the model draws: the leading integer, 0 when
\* the text does not start with one
atoi(text) ==
    CASE text = "-1" -> -1
      [] text = "0" -> 0
      [] text = "1" -> 1
      [] text = "2" -> 2
      [] text = "3" -> 3
      [] text = "4" -> 4
      [] OTHER -> 0

\* what filter_tests does: it returns specs, throws (nothing catches: the
\* process is terminated), calls exit(EXIT_FAILURE), or never returns
Built(ss) == [kind |-> "specs", specs |-> ss]
Thrown == [kind |-> "throw", specs |-> << >>]
Exited == [kind |-> "exit", specs |-> << >>]
Hangs == [kind |-> "hang", specs |-> << >>]

\* make_default_tests, the choice of maxcpus (477-489); a size_t is kept
\* as a signed number, -n standing for 2^64 - n
max_cpus(max_threads, ncpus) ==
    IF max_threads.set
    THEN IF max_threads.val > ncpus THEN ncpus ELSE max_threads.val
    ELSE ncpus

\* make_default_tests, the selected funcs (499-511): an id of --test that
\* find_one_test does not know is skipped with a warning
RECURSIVE focus_funcs(_, _)
focus_funcs(focus, k) ==
    IF k > Len(focus) THEN << >>
    ELSE LET t == find_one_test(focus[k])
         IN  (IF t = nullptr THEN << >> ELSE <<t>>) \o focus_funcs(focus, k + 1)

selected_funcs(focus) ==
    IF focus.set THEN focus_funcs(focus.val, 1) ELSE ALL_FUNCS

\* the ids of the funcs that pass should_run (517)
RECURSIVE runnable(_, _, _)
runnable(funcs, isas, k) ==
    IF k > Len(funcs) THEN << >>
    ELSE (IF should_run(funcs[k], isas) THEN <<funcs[k].id>> ELSE << >>)
         \o runnable(funcs, isas, k + 1)

\* make_default_tests as a whole.  thread_count and maxcpus are size_t: a
\* negative --min-threads is a thread count above every maxcpus that was
\* not negative itself; a negative --max-threads is a maxcpus near 2^64,
\* and the loop then adds specs until memory is exhausted (std::bad_alloc
\* or std::length_error), or turns without end when no func is selected
default_tests(min_threads, max_threads, focus, isas, ncpus) ==
    LET maxcpus == max_cpus(max_threads, ncpus)
        funcs == runnable(selected_funcs(focus), isas, 1)
    IN  IF maxcpus >= 0
        THEN IF min_threads >= 0
             THEN Built(make_default_tests(min_threads, maxcpus, funcs))
             ELSE Built(<< >>)
        ELSE IF min_threads < 0 /\ min_threads > maxcpus
             THEN Built(<< >>)
             ELSE IF funcs = << >> THEN Hangs ELSE Thrown

\* make_from_spec, the loop over the elements (531-545): the thread_funcs
\* built from element k on, given those built so far; an element of more
\* than two halves or of an unknown id throws std::runtime_error, a
\* negative count is a size_t near 2^64 and insert throws std::length_error
RECURSIVE spec_funcs(_, _, _)
spec_funcs(elems, k, acc) ==
    IF k > Len(elems) THEN Built(acc)
    ELSE LET halves == elems[k]
             n == IF Len(halves) = 1 THEN 1 ELSE atoi(halves[2])
             test == find_one_test(halves[1])
         IN  IF Len(halves) > 2 THEN Thrown
             ELSE IF test = nullptr THEN Thrown
             ELSE IF n < 0 THEN Thrown
             ELSE spec_funcs(elems, k + 1, acc \o [i \in 1 .. n |-> test.id])

\* make_from_spec as a whole: one spec, refused when it has more threads
\* than there are CPUs (547-550)
make_from_spec(elems, ncpus) ==
    LET built == spec_funcs(elems, 1, << >>)
    IN  IF built.kind # "specs" THEN built
        ELSE IF Len(built.specs) > ncpus THEN Exited
        ELSE Built(<< [name |-> "spec", thread_funcs |-> built.specs] >>)

\* filter_tests (555-561)
filter_tests(isas, cpus_) ==
    IF ~arg_spec.set
    THEN default_tests(arg_min_threads, arg_max_threads, arg_focus, isas,
                       Len(cpus_))
    ELSE make_from_spec(arg_spec.val, Len(cpus_))

\* get_cpus (733-752): 0 .. n-1 under --num-cpus n, else the CPUs of the
\* affinity mask in increasing order
get_cpus(num_cpus, affinity) ==
    IF num_cpus.set THEN [i \in 1 .. num_cpus.val |-> i - 1] ELSE affinity

\* filter_cpus (756-785): the first CPU of every core id, the core id being
\* the x2apic id shifted right by the SMT shift; the x2apic id of CPU n is
\* taken to be n.  A shift of -1: leaf 0xb is not there, nothing is filtered
RECURSIVE filter_cpus(_, _, _, _)
filter_cpus(list, shift, k, coreid_set) ==
    IF shift = -1 THEN list
    ELSE IF k > Len(list) THEN << >>
    ELSE LET coreid == list[k] \div Pow2(shift)
         IN  (IF coreid \in coreid_set THEN << >> ELSE <<list[k]>>)
             \o filter_cpus(list, shift, k + 1, coreid_set \cup {coreid})

\* main's cpu_ids (843-853): the numbers of --cpuids, or 0 .. cpus.size()-1
cpu_ids_default(cpus_) == [i \in 1 .. Len(cpus_) |-> i - 1]

make_cpu_ids(cpuids, cpus_) ==
    IF cpuids.set THEN [i \in 1 .. Len(cpuids.val) |-> atoi(cpuids.val[i])]
    ELSE cpu_ids_default(cpus_)

\* if (arg_iters.Get() % 100 != 0)
iters_rejected_never(iters) == FALSE
iters_rejected(iters) == iters % IterStep # 0

(***************************************************************************)
(* SpecMain: the whole of main, from the arguments of one invocation to    *)
(* its exit, each thread's operator() taken as one step.                   *)
(***************************************************************************)
\* the values drawn for the options
ItersDrawn == {IterStep, IterStep + (IterStep \div 2)}
FocusDrawn == {<<"bogus">>, <<"pause_only", "bogus">>, <<"avx512_iadd">>}
MinThreadsDrawn == -1 .. MaxCpus
MaxThreadsDrawn == -1 .. (MaxCpus + 1)
ElemsDrawn ==
    { <<"pause_only">>, <<"pause_only", "0">>, <<"pause_only", "2">>,
      <<"pause_only", "-1">>, <<"pause_only", "x">>, <<"avx512_iadd", "1">>,
      <<"bogus">>, <<"pause_only", "1", "1">> }
SpecsDrawn ==
    {<<e>> : e \in ElemsDrawn} \cup {<<e, f>> : e, f \in ElemsDrawn}
CpuidsDrawn == {<<"0">>}

\* the machine: the CPUs of the affinity mask, in increasing order
RECURSIVE Ascending(_, _)
Ascending(S, from) ==
    IF from > MaxCpuId THEN << >>
    ELSE (IF from \in S THEN <<from>> ELSE << >>) \o Ascending(S, from + 1)

Affinities == {Ascending(S, 0) : S \in (SUBSET (0 .. MaxCpuId)) \ {{}}}
SmtShifts == {-1, 0, 1}
IsaSets == {{"BASE"}, {"BASE", "AVX512F"}}

\* the process has started: the options are as constructed
InitMain ==
    /\ cn_ndebug \in BOOLEAN
    /\ arg_nobarrier = FALSE
    /\ arg_no_pin = FALSE
    /\ ArgDefaults
    /\ specs = << >>
    /\ isas_supported = {}
    /\ cpus = << >>
    /\ cpu_ids = << >>
    /\ si = 1
    /\ mpc = "parse"
    /\ last_thread_count = -1
    /\ results_list = << >>
    /\ reports = << >>
    /\ start = NoBarrier
    /\ stop = NoBarrier
    /\ nthreads = 0
    /\ ji = 0
    /\ exited = "no"
    /\ HistIdle
    /\ ThreadsIdle
    /\ BarrierIdle
    /\ CallsIdle
    /\ TrialIdle
    /\ AuxIdle

\* parser.ParseCLI throws args::Help or args::ParseError: main prints and
\* exits (789, 795-802)
MC_ParseFails ==
    /\ Running /\ mpc = "parse"
    /\ \E status \in {"success", "error"} : exited' = status
    /\ UNCHANGED <<concVars, barVars, argVars, orchVars, start, stop, thrVars>>

\* parser.ParseCLI fills the options, then the check of --iters, then
\* --list (789-807); with --spec the options of the default sweep are left
\* as constructed
MC_Parse ==
    /\ Running /\ mpc = "parse"
    /\ arg_iters' \in ItersDrawn
    /\ arg_no_pin' \in BOOLEAN
    /\ arg_cpuids' \in {UnsetList} \cup {Given(l) : l \in CpuidsDrawn}
    /\ \/ /\ arg_spec' = UnsetList
          /\ arg_focus' \in {UnsetList} \cup {Given(f) : f \in FocusDrawn}
          /\ arg_min_threads' \in MinThreadsDrawn
          /\ arg_max_threads' \in {UnsetInt} \cup {Given(m) : m \in MaxThreadsDrawn}
       \/ /\ arg_spec' \in {Given(s) : s \in SpecsDrawn}
          /\ UNCHANGED <<arg_focus, arg_min_threads, arg_max_threads>>
    /\ \E arg_list \in BOOLEAN :
          IF iters_rejected(arg_iters')
          THEN exited' = "error" /\ mpc' = mpc
          ELSE IF arg_list
               THEN exited' = "success" /\ mpc' = mpc
               ELSE exited' = exited /\ mpc' = "hardware"
    /\ UNCHANGED <<concVars, barVars, arg_nobarrier, specs, isas_supported, cpus,
                   cpu_ids, si, last_thread_count, results_list, reports,
                   nthreads, ji, histVars, start, stop, thrVars>>

\* get_isas, get_cpus and, without --allow-hyperthreads, filter_cpus
\* (817-832); in filter_cpus sched_setaffinity fails for a CPU that
\* --num-cpus named and the affinity mask does not have: err() exits
MC_Hardware ==
    /\ Running /\ mpc = "hardware"
    /\ isas_supported' \in IsaSets
    /\ \E affinity \in Affinities, shift \in SmtShifts,
          arg_hyperthreads \in BOOLEAN,
          arg_num_cpus \in {UnsetInt} \cup {Given(n) : n \in 0 .. MaxCpus} :
          LET got == get_cpus(arg_num_cpus, affinity)
              usable == IF arg_hyperthreads THEN got
                        ELSE filter_cpus(got, shift, 1, {})
          IN  /\ Len(usable) <= MaxCpus
              /\ IF ~arg_hyperthreads /\ shift # -1 /\ ~(Range(got) \subseteq Range(affinity))
                 THEN exited' = "error" /\ UNCHANGED <<cpus, mpc>>
                 ELSE cpus' = usable /\ mpc' = "tests" /\ exited' = exited
    /\ UNCHANGED <<concVars, barVars, arg_nobarrier, arg_no_pin, specs, arg_iters,
                   arg_focus, arg_spec, arg_min_threads, arg_max_threads,
                   arg_cpuids, cpu_ids, si, last_thread_count, results_list,
                   reports, nthreads, ji, histVars, start, stop, thrVars>>

\* auto specs = filter_tests(isas_supported, cpus);  (841)
MC_FilterTests ==
    /\ Running /\ mpc = "tests"
    /\ LET made == filter_tests(isas_supported, cpus)
       IN  CASE made.kind = "specs" ->
                  specs' = made.specs /\ mpc' = "cpuids" /\ exited' = exited
             [] made.kind = "hang" ->
                  specs' = specs /\ mpc' = "hang" /\ exited' = exited
             [] OTHER ->
                  specs' = specs /\ mpc' = mpc /\ exited' = "error"
    /\ UNCHANGED <<concVars, barVars, arg_nobarrier, arg_no_pin, cfgVars, si,
                   last_thread_count, results_list, reports, nthreads, ji,
                   histVars, start, stop, thrVars>>

\* the construction of cpu_ids (843-853), up to the head of the loop
MC_CpuIds ==
    /\ Running /\ mpc = "cpuids"
    /\ cpu_ids' = make_cpu_ids(arg_cpuids, cpus)
    /\ mpc' = "head"
    /\ UNCHANGED <<concVars, barVars, arg_nobarrier, arg_no_pin, specs, arg_iters,
                   arg_focus, arg_spec, arg_min_threads, arg_max_threads,
                   arg_cpuids, isas_supported, cpus, si, last_thread_count,
                   results_list, reports, nthreads, ji, histVars, start, stop,
                   exited, thrVars>>

\* test_thread::operator() from the warmup to its end, as one step: the
\* thread passes the start barrier and leaves the drain loop of run_test
\* only when all threads of the spec have arrived, so the step waits for
\* the last of them to be constructed.  run_test begins with
\* assert(iters % 100 == 0)
TM_Run(t) ==
    /\ Running /\ pc[t] = "pin"
    /\ nthreads = count(CurSpec)
    /\ IF arg_iters % IterStep # 0 /\ ~cn_ndebug
       THEN /\ failed_assert' = failed_assert \cup {"run_test"}
            /\ exited' = "error"
            /\ UNCHANGED <<start, stop, thrVars>>
       ELSE /\ start' = IF arg_nobarrier THEN start ELSE increment(start)
            /\ stop' = increment(stop)
            /\ Goto(t, "done")
            /\ res' = [res EXCEPT ![t] = ResFields]
            /\ passes' = [passes EXCEPT ![t] = WARMUP + 1]
            /\ trials' = [trials EXCEPT ![t] = (WARMUP + 1) * TRIES]
            /\ UNCHANGED <<exited, failed_assert, warms, spins, w, r>>
    /\ UNCHANGED <<concVars, barVars, argVars, si, mpc, last_thread_count,
                   results_list, reports, nthreads, ji, th_test, th_cpu,
                   nspawned, barriers>>

NextMain ==
    \/ MC_ParseFails
    \/ MC_Parse
    \/ MC_Hardware
    \/ MC_FilterTests
    \/ MC_CpuIds
    \/ MainStep
    \/ \E t \in Threads : T_PinFail(t)
    \/ \E t \in Threads : TM_Run(t)

SpecMain == InitMain /\ [][NextMain]_vars

(***************************************************************************)
(* Claims about the configuration and the orchestrator                     *)
(***************************************************************************)
\* the ids of the catalog
KnownIds == {ALL_FUNCS[k].id : k \in 1 .. Len(ALL_FUNCS)}

\* --spec names an id that is not in the catalog
UnknownInSpec ==
    /\ arg_spec.set
    /\ \E k \in 1 .. Len(arg_spec.val) : arg_spec.val[k][1] \notin KnownIds

\* --test (without --spec) names an id that is not in the catalog
UnknownInFocus ==
    /\ ~arg_spec.set
    /\ arg_focus.set
    /\ \E k \in 1 .. Len(arg_focus.val) : arg_focus.val[k] \notin KnownIds

\* main is not past filter_tests (no spec exists, nothing was spawned), and
\* when it has ended in filter_tests it has ended with an error
NotPastFilterTests ==
    /\ mpc \in {"parse", "hardware", "tests"}
    /\ specs = << >>
    /\ nspawned = 0
    /\ barriers = {}
    /\ (mpc = "tests" /\ exited # "no") => exited = "error"

\* the ids of all descriptors of all specs
SpecIds == UNION {Range(specs[k].thread_funcs) : k \in 1 .. Len(specs)}

\* C15 as stated: if any requested workload id (given through --test or
\* through --spec) is not in the catalog, the run is aborted with an error
\* before any thread is spawned and no spec is executed.
C15_UnknownIdAborts ==
    (UnknownInSpec \/ UnknownInFocus) => NotPastFilterTests

\* C15: if a workload id requested through --spec is not in the catalog,
\* the run is aborted with an error before any thread is spawned and no
\* spec is executed; an id requested through --test that is not in the
\* catalog is skipped, and the specs are built from the requested ids the
\* catalog has.
C15_UnknownSpecIdAborts ==
    /\ UnknownInSpec => NotPastFilterTests
    /\ (~arg_spec.set /\ arg_focus.set) =>
          SpecIds \subseteq (Range(arg_focus.val) \cap KnownIds)

\* filter_tests has thrown on a --spec whose second element is unknown
C15_Witness ==
    /\ arg_spec.set
    /\ Len(arg_spec.val) = 2
    /\ arg_spec.val[1][1] \in KnownIds
    /\ arg_spec.val[2][1] \notin KnownIds
    /\ mpc = "tests"
    /\ exited = "error"

\* a run of --test with an unknown id has spawned threads and returned
C15_SkippedWitness ==
    /\ UnknownInFocus
    /\ nspawned > 0
    /\ exited = "success"

\* C16: every spec that reaches execution satisfies 1 <= count() <= number
\* of usable CPUs, for every combination of --min-threads, --max-threads
\* and --spec values; no hot_barrier is ever constructed with participant
\* count 0.
C16_CountInRange ==
    /\ \A n \in barriers : 1 <= n /\ n <= Len(cpus)
    /\ mpc \in {"spawn", "join"} =>
          (1 <= count(CurSpec) /\ count(CurSpec) <= Len(cpus))

\* what holds of the thread count of an executed spec: it never exceeds
\* the number of usable CPUs, and it is 0 only in a build without
\* assertions
CountAtMostCpus ==
    /\ \A n \in barriers : n <= Len(cpus)
    /\ ~cn_ndebug => 0 \notin barriers

\* a spec without threads has been executed and reported
EmptySpecExecuted ==
    /\ 0 \in barriers
    /\ exited = "success"

\* C17: if the configured iteration count is not a multiple of 100, the
\* program exits with failure before any spec is built or any thread is
\* spawned; consequently the assertion iters % 100 == 0 at the start of
\* run_test holds in every execution.
C17_ItersMultipleOf100 ==
    /\ arg_iters % IterStep # 0 =>
          /\ exited = "error"
          /\ mpc = "parse"
          /\ specs = << >>
          /\ nspawned = 0
    /\ "run_test" \notin failed_assert

\* a run with --iters 150 has exited
C17_Witness ==
    /\ arg_iters % IterStep # 0
    /\ exited = "error"

\* a thread has gone through run_test in a build with assertions
C17_AssertPassed ==
    /\ ~cn_ndebug
    /\ \E t \in Threads : pc[t] = "done"

\* the specs of the holders of a list, in order
SpecsOf(list) == [k \in 1 .. Len(list) |-> list[k].spec]

\* the specs of all reports, in the order they were reported
RECURSIVE Reported(_)
Reported(reps) ==
    IF reps = << >> THEN << >>
    ELSE SpecsOf(Head(reps)) \o Reported(Tail(reps))

\* the results that are accumulated and not reported yet
Pending == IF mpc = "exit" THEN << >> ELSE results_list

\* C18: every report emitted contains result rows of a single thread count
\* only: whenever a spec's count() differs from the previous spec's, the
\* accumulated results are reported and cleared before the new spec runs,
\* and the remaining results are reported once after the last spec; each
\* executed spec's results appear in exactly one report, in execution
\* order (a run that main ends by returning reports every executed spec;
\* in any run the reported and the accumulated specs together are the
\* executed ones, each once, in order).
C18_OneThreadCountPerReport ==
    /\ \A k \in 1 .. Len(reports) :
          \A a, b \in Range(reports[k]) :
              count(specs[a.spec]) = count(specs[b.spec])
    /\ mpc \in {"spawn", "join"} =>
          \A h \in Range(results_list) :
              count(specs[h.spec]) = count(CurSpec)
    /\ LET all == Reported(reports) \o SpecsOf(Pending)
       IN  /\ all = [k \in 1 .. Len(all) |-> k]
           /\ Len(all) = IF mpc = "join" THEN si ELSE si - 1
    /\ (mpc = "exit" /\ exited = "success") =>
          /\ Len(Reported(reports)) = Len(specs)
          /\ \A k \in 1 .. Len(reports) :
                \A h \in Range(reports[k]) :
                    Len(h.results) = count(specs[h.spec])

\* a run has reported two specs of one thread each in its first report
\* and specs of two threads each in its last
C18_Witness ==
    /\ exited = "success"
    /\ Len(reports) = 2
    /\ Len(reports[1]) = 2
    /\ count(specs[reports[1][1].spec]) = 1
    /\ Len(reports[2]) = 2
    /\ count(specs[reports[2][1].spec]) = 2

\* C20: with pinning enabled and no --cpuids override, the threads of a
\* spec are pinned to pairwise distinct CPU ids taken from the usable
\* (topology-filtered) CPU id list: thread i is pinned to the i-th id of
\* that list.
C20_PinnedToUsableCpus ==
    (~arg_no_pin /\ ~arg_cpuids.set) =>
        \A t \in Threads :
            pc[t] = "done" =>
                /\ t < Len(cpus)
                /\ th_cpu[t] = cpus[t + 1]
                /\ \A u \in Threads \ {t} :
                      pc[u] = "done" => th_cpu[u] # th_cpu[t]

\* what holds instead: thread i is pinned to CPU i, whatever the usable
\* CPUs are
PinnedToOwnIndex ==
    (~arg_no_pin /\ ~arg_cpuids.set) =>
        \A t \in Threads : pc[t] # "unspawned" => th_cpu[t] = t

\* with usable CPUs 0 and 2, both threads have been pinned, the second one
\* to CPU 1
PinnedOutsideUsable ==
    /\ ~arg_no_pin /\ ~arg_cpuids.set
    /\ cpus = <<0, 2>>
    /\ pc[0] = "done" /\ pc[1] = "done"
    /\ th_cpu[1] = 1

\* the holders of results_list whose spec has been left
Finished(h) == h < Len(results_list) \/ mpc \in {"head", "exit"}

\* C19, the states: between two specs no barrier and no thread exists;
\* inside a spec both barriers have break_count = count(), the threads
\* constructed are 0 .. threads.size()-1, thread i was given descriptor i
\* (the i+1-th of thread_funcs), and the results copied so far are those
\* of threads 0 .. ji-1 in this order; a spec that was left has exactly
\* count() results, of threads 0 .. count()-1 in this order
C19_SpecScope ==
    /\ mpc \in {"head", "exit"} =>
          /\ start = NoBarrier /\ stop = NoBarrier
          /\ \A t \in Threads : pc[t] = "unspawned"
    /\ mpc \in {"spawn", "join"} =>
          /\ start.break_count = count(CurSpec)
          /\ stop.break_count = count(CurSpec)
          /\ nthreads <= count(CurSpec)
          /\ \A t \in Threads : (pc[t] # "unspawned") <=> (t < nthreads)
          /\ \A t \in Threads : t < nthreads => th_test[t] = t + 1
    /\ mpc = "join" =>
          /\ nthreads = count(CurSpec)
          /\ results_list[Len(results_list)].spec = si
          /\ results_list[Len(results_list)].origin = [k \in 1 .. ji |-> k - 1]
    /\ \A h \in 1 .. Len(results_list) :
          Finished(h) =>
              /\ Len(results_list[h].results) = count(specs[results_list[h].spec])
              /\ results_list[h].origin =
                    [k \in 1 .. count(specs[results_list[h].spec]) |-> k - 1]

\* C19, the steps: main leaves a spec (and destroys its barriers and
\* threads) only when all count() threads have returned and been joined,
\* and constructs barriers only when no thread exists
C19_LeavesWhenJoined ==
    /\ si' # si =>
          /\ ji = count(CurSpec)
          /\ \A t \in SpecThreads : pc[t] = "done"
    /\ (start' # start /\ start = NoBarrier) =>
          \A t \in Threads : pc[t] = "unspawned"

\* C19: for each spec the orchestrator creates one start and one stop
\* barrier, both with break_count = count(), spawns exactly count() threads
\* (thread i running descriptor i), joins every one of them exactly once
\* before the next spec's barriers and threads are created (threads of
\* different specs never run concurrently and no thread touches a barrier
\* after the spec's scope ends), and the spec's result collection ends with
\* exactly count() results in descriptor order.
C19_OneSpecAtATime == [](C19_SpecScope) /\ [][C19_LeavesWhenJoined]_vars

\* the second spec, of two threads, is being left with both results copied
C19_Witness ==
    /\ mpc = "head"
    /\ si = 3
    /\ Len(results_list) >= 1
    /\ results_list[Len(results_list)].origin = <<0, 1>>

(***************************************************************************)
(* SpecClock: the function-local statics of RdtscClock (avx-turbo.cpp      *)
(* 223-231).  Every thread calls tsc_freq() and to_nanos() in any order;   *)
(* the first call through each declaration runs its initializer, under the *)
(* guard the compiler gives a static local (C++11 [stmt.dcl] p4).          *)
(***************************************************************************)
\* calls of tsc_freq() / to_nanos() one thread makes
MaxCalls == 2

Statics == {"freq", "tsc_to_nanos"}

initialized_when_started(g) == g # "uninit"
\* the test of the guard before a static local is used: its initialization
\* has completed
initialized(g) == g = "done"

InitClock ==
    /\ ClockIdle
    /\ TscIdle
    /\ MsrIdle
    /\ WarmIdle
    /\ AnalysisIdle
    /\ TrialIdle
    /\ BarrierIdle
    /\ MainIdle
    /\ ThreadsIdle

\* a thread calls tsc_freq() (avx-turbo.cpp 415, 716, 825) or to_nanos()
\* (avx-turbo.cpp 415, 608)
CK_Call(t) ==
    /\ ck_pc[t] = "out"
    /\ ck_calls[t] < MaxCalls
    /\ ck_calls' = [ck_calls EXCEPT ![t] = @ + 1]
    /\ \E fn \in {"freq_guard", "nanos_guard"} : ck_pc' = [ck_pc EXCEPT ![t] = fn]
    /\ UNCHANGED <<ck_guard, ck_freq, ck_factor, ck_nested, ck_seen, ck_used,
                   ck_evaluated, cn_ndebug, cn_in, cn_ret, cn_ret2, cn_ratio,
                   tscVars, calVars, msrVars, warmVars,
                   nestVars, trialVars, barVars, mainVars, thrVars>>

\* static uint64_t freq = ...: the guard is tested; the thread that finds
\* the static untouched initializes it, a thread that finds it being
\* initialized waits
CK_FreqGuard(t) ==
    /\ ck_pc[t] = "freq_guard"
    /\ IF initialized(ck_guard["freq"])
       THEN /\ ck_pc' = [ck_pc EXCEPT ![t] = "freq_ret"]
            /\ UNCHANGED ck_guard
       ELSE /\ ck_guard["freq"] = "uninit"
            /\ ck_guard' = [ck_guard EXCEPT !["freq"] = "busy"]
            /\ ck_pc' = [ck_pc EXCEPT ![t] = "freq_init"]
    /\ UNCHANGED <<ck_freq, ck_factor, ck_nested, ck_calls, ck_seen, ck_used,
                   ck_evaluated, cn_ndebug, cn_in, cn_ret, cn_ret2, cn_ratio,
                   tscVars, calVars, msrVars, warmVars,
                   nestVars, trialVars, barVars, mainVars, thrVars>>

\* ... = get_tsc_freq(arg_force_tsc_cal);
CK_FreqInit(t) ==
    /\ ck_pc[t] = "freq_init"
    /\ \E v \in FreqsDrawn :
          /\ ck_freq' = v
          /\ ck_evaluated' = Append(ck_evaluated, v)
    /\ ck_guard' = [ck_guard EXCEPT !["freq"] = "done"]
    /\ ck_pc' = [ck_pc EXCEPT ![t] = "freq_ret"]
    /\ UNCHANGED <<ck_factor, ck_nested, ck_calls, ck_seen, ck_used,
                   cn_ndebug, cn_in, cn_ret, cn_ret2, cn_ratio,
                   tscVars, calVars, msrVars, warmVars,
                   nestVars, trialVars, barVars, mainVars, thrVars>>

\* return freq;  and, when the caller is the initializer of tsc_to_nanos,
\* the division and the end of that initialization
CK_FreqRet(t) ==
    /\ ck_pc[t] = "freq_ret"
    /\ ck_seen' = [ck_seen EXCEPT ![t] = @ \cup {ck_freq}]
    /\ IF ck_nested[t]
       THEN /\ ck_factor' = tsc_to_nanos(ck_freq)
            /\ ck_guard' = [ck_guard EXCEPT !["tsc_to_nanos"] = "done"]
            /\ ck_nested' = [ck_nested EXCEPT ![t] = FALSE]
            /\ ck_pc' = [ck_pc EXCEPT ![t] = "nanos_ret"]
       ELSE /\ ck_pc' = [ck_pc EXCEPT ![t] = "out"]
            /\ UNCHANGED <<ck_factor, ck_guard, ck_nested>>
    /\ UNCHANGED <<ck_freq, ck_calls, ck_used, ck_evaluated,
                   cn_ndebug, cn_in, cn_ret, cn_ret2, cn_ratio,
                   tscVars, calVars, msrVars, warmVars,
                   nestVars, trialVars, barVars, mainVars, thrVars>>

\* static double tsc_to_nanos = ...: the guard is tested, and the thread
\* that initializes calls tsc_freq()
CK_NanosGuard(t) ==
    /\ ck_pc[t] = "nanos_guard"
    /\ IF initialized(ck_guard["tsc_to_nanos"])
       THEN /\ ck_pc' = [ck_pc EXCEPT ![t] = "nanos_ret"]
            /\ UNCHANGED <<ck_guard, ck_nested>>
       ELSE /\ ck_guard["tsc_to_nanos"] = "uninit"
            /\ ck_guard' = [ck_guard EXCEPT !["tsc_to_nanos"] = "busy"]
            /\ ck_nested' = [ck_nested EXCEPT ![t] = TRUE]
            /\ ck_pc' = [ck_pc EXCEPT ![t] = "freq_guard"]
    /\ UNCHANGED <<ck_freq, ck_factor, ck_calls, ck_seen, ck_used,
                   ck_evaluated, cn_ndebug, cn_in, cn_ret, cn_ret2, cn_ratio,
                   tscVars, calVars, msrVars, warmVars,
                   nestVars, trialVars, barVars, mainVars, thrVars>>

\* return diff * tsc_to_nanos;
CK_NanosRet(t) ==
    /\ ck_pc[t] = "nanos_ret"
    /\ ck_used' = [ck_used EXCEPT ![t] = @ \cup {ck_factor}]
    /\ ck_pc' = [ck_pc EXCEPT ![t] = "out"]
    /\ UNCHANGED <<ck_guard, ck_freq, ck_factor, ck_nested, ck_calls, ck_seen,
                   ck_evaluated, cn_ndebug, cn_in, cn_ret, cn_ret2, cn_ratio,
                   tscVars, calVars, msrVars, warmVars,
                   nestVars, trialVars, barVars, mainVars, thrVars>>

NextClock ==
    \E t \in Threads :
        \/ CK_Call(t)
        \/ CK_FreqGuard(t)
        \/ CK_FreqInit(t)
        \/ CK_FreqRet(t)
        \/ CK_NanosGuard(t)
        \/ CK_NanosRet(t)

SpecClock == InitClock /\ [][NextClock]_vars

\* C21: for any number of calls of tsc_freq() and to_nanos() from any
\* threads in any interleaving, get_tsc_freq is evaluated at most once, it
\* has been evaluated when a call has returned, every value tsc_freq()
\* returned is the value of that one evaluation and every factor to_nanos()
\* multiplied by is derived from it: no caller observes the zero of the
\* uninitialized static or another value.
C21_EvaluatedOnce ==
    /\ Len(ck_evaluated) <= 1
    /\ \A t \in Threads :
          /\ \A v \in ck_seen[t] :
                Len(ck_evaluated) = 1 /\ v = ck_evaluated[1]
          /\ \A f \in ck_used[t] :
                Len(ck_evaluated) = 1 /\ f = tsc_to_nanos(ck_evaluated[1])

\* every thread has made all its calls, tsc_freq() and to_nanos() both
\* returned to every thread, and the thread that initialized freq is not
\* the only one that read it
C21_Witness ==
    /\ \A t \in Threads :
          /\ ck_pc[t] = "out"
          /\ ck_calls[t] = MaxCalls
          /\ ck_seen[t] # {}
          /\ ck_used[t] # {}
    /\ Len(ck_evaluated) = 1

(***************************************************************************)
(* SpecTscFreq: get_tsc_freq and get_tsc_cal_info (tsc-support.cpp 20-58,  *)
(* 108-125) on one machine: the registers of CPUID leaf 0x15, the family   *)
(* and model, the flag force_calibrate and what tsc_from_cal() measures.   *)
(***************************************************************************)
\* largest value of a register of CPUID leaf 0x15 (32 bits in the build)
MaxReg == 2
\* largest frequency the calibration loop measures (a positive uint64_t:
\* the counter advances during the delay of a sample)
MaxCal == 2

\* the crystal clock of Skylake client and Kaby Lake (tsc-support.cpp 46)
CrystalHz == 24000000

\* family 6 with two of its models (0x5E Skylake client, 0x55 Skylake
\* server), and a family that is not 6
Families == {6, 23}
Models == {94, 85}

Machines ==
    [leaf15 : BOOLEAN, eax : 0 .. MaxReg, ebx : 0 .. MaxReg, ecx : 0 .. MaxReg,
     family : Families, model : Models, force_calibrate : BOOLEAN,
     cal : 1 .. MaxCal]

\* the process was ended by a signal (SIGFPE on a division by zero)
Faulted == [kind |-> "fault", val |-> << >>]

\* a / b in uint64_t: the divide instruction raises a divide error for b = 0
udiv(a, b) == IF b = 0 THEN Faulted ELSE Returned(a \div b)

\* get_tsc_from_cpuid_inner(), and get_tsc_from_cpuid(), which caches it
get_tsc_from_cpuid(m) ==
    IF ~m.leaf15 THEN Returned(0)
    ELSE IF m.ecx # 0 THEN udiv(m.ecx * m.ebx, m.eax)
    ELSE IF m.family = 6 /\ m.model \in {78, 94, 142, 158}
         THEN udiv(CrystalHz * m.ebx, m.eax)
    ELSE Returned(0)

\* uint64_t get_tsc_freq(bool force_calibrate)
get_tsc_freq(m) ==
    IF m.force_calibrate THEN Returned(m.cal)
    ELSE LET tsc == get_tsc_from_cpuid(m) IN
         IF tsc.kind # "ret" THEN tsc
         ELSE IF tsc.val # 0 THEN tsc
         ELSE Returned(m.cal)

\* const char* get_tsc_cal_info(bool force_calibrate)
get_tsc_cal_info(m) ==
    IF m.force_calibrate THEN Returned("from calibration loop")
    ELSE LET tsc == get_tsc_from_cpuid(m) IN
         IF tsc.kind # "ret" THEN tsc
         ELSE IF tsc.val # 0 THEN Returned("from cpuid leaf 0x15")
         ELSE Returned("from calibration loop")

InitTscFreq ==
    /\ tf_in \in Machines
    /\ tf_ret = NotCalled
    /\ tf_info = NotCalled
    /\ cal_samples = << >>
    /\ cal_ret = NotCalled
    /\ ClockIdle
    /\ MsrIdle
    /\ WarmIdle
    /\ AnalysisIdle
    /\ TrialIdle
    /\ BarrierIdle
    /\ MainIdle
    /\ ThreadsIdle

\* RdtscClock::tsc_freq()'s call of get_tsc_freq (avx-turbo.cpp 229)
TF_GetTscFreq ==
    /\ tf_ret.kind = "none"
    /\ tf_info.kind # "fault"
    /\ tf_ret' = get_tsc_freq(tf_in)
    /\ UNCHANGED <<tf_in, tf_info, calVars, clockVars, msrVars, warmVars,
                   cn_ndebug, cn_in, cn_ret, cn_ret2, cn_ratio,
                   nestVars, trialVars, barVars, mainVars, thrVars>>

\* main's call of get_tsc_cal_info (avx-turbo.cpp 825)
TF_GetTscCalInfo ==
    /\ tf_info.kind = "none"
    /\ tf_ret.kind # "fault"
    /\ tf_info' = get_tsc_cal_info(tf_in)
    /\ UNCHANGED <<tf_in, tf_ret, calVars, clockVars, msrVars, warmVars,
                   cn_ndebug, cn_in, cn_ret, cn_ret2, cn_ratio,
                   nestVars, trialVars, barVars, mainVars, thrVars>>

NextTscFreq == TF_GetTscFreq \/ TF_GetTscCalInfo

SpecTscFreq == InitTscFreq /\ [][NextTscFreq]_vars

\* the value the descriptor of leaf 0x15 yields where its ratio is defined
\* (crystal clock x ebx / eax), zero where leaf 0x15 gives none
DescriptorValue(m) ==
    IF ~m.leaf15 \/ m.eax = 0 THEN 0
    ELSE IF m.ecx # 0 THEN (m.ecx * m.ebx) \div m.eax
    ELSE IF m.family = 6 /\ m.model \in {78, 94, 142, 158}
         THEN (CrystalHz * m.ebx) \div m.eax
    ELSE 0

FromCpuid(m) == ~m.force_calibrate /\ DescriptorValue(m) # 0

\* C22: for every content of CPUID leaf 0x15 (eax = 0 and ebx = 0
\* included), every family and model and either value of force_calibrate,
\* get_tsc_freq returns a strictly positive frequency and raises no error:
\* the CPUID-derived value iff force_calibrate is false and the descriptor
\* yields a non-zero value, otherwise the result of the calibration loop;
\* get_tsc_cal_info names the source get_tsc_freq used.
C22_PositiveWithoutError ==
    /\ tf_ret.kind # "none" =>
          /\ tf_ret.kind = "ret"
          /\ tf_ret.val > 0
          /\ tf_ret.val = IF FromCpuid(tf_in) THEN DescriptorValue(tf_in)
                          ELSE tf_in.cal
    /\ tf_info.kind # "none" =>
          /\ tf_info.kind = "ret"
          /\ tf_info.val = IF FromCpuid(tf_in) THEN "from cpuid leaf 0x15"
                           ELSE "from calibration loop"

\* what holds of the code: the statement of C22 on the machines whose
\* leaf 0x15 has a non-zero eax or is not divided by
PositiveWhereDivisorNonzero ==
    (tf_in.eax # 0 \/ get_tsc_from_cpuid(tf_in).kind # "fault")
        => C22_PositiveWithoutError

\* the division by zero, and its machines
FaultOnlyForZeroEax ==
    ("fault" \in {tf_ret.kind, tf_info.kind}) =>
        /\ tf_in.leaf15 /\ tf_in.eax = 0 /\ ~tf_in.force_calibrate
        /\ \/ tf_in.ecx # 0
           \/ tf_in.family = 6 /\ tf_in.model = 94

(***************************************************************************)
(* SpecTscCal: tsc_from_cal (tsc-support.cpp 83-100) on the 2 x SAMPLES    *)
(* values do_sample() returned.                                            *)
(***************************************************************************)
\* SAMPLES (101 in the build, tsc-support.cpp 69)
SAMPLES == 10
\* the largest frequency a sample of the second half measures
MaxSample == 4

\* the first SAMPLES samples: all zero, all far above every later sample,
\* or one and the other in turn
FirstHalves ==
    { [i \in 1 .. SAMPLES |-> 0],
      [i \in 1 .. SAMPLES |-> 10 * MaxSample],
      [i \in 1 .. SAMPLES |-> IF i % 2 = 0 THEN 0 ELSE 10 * MaxSample] }

\* the last SAMPLES samples: each the slowest or the fastest measurement
SecondHalves == [1 .. SAMPLES -> {1, MaxSample}]

first_half(samples) == SubSeq(samples, 1, SAMPLES)
\* std::copy(samples.begin() + SAMPLES, samples.end(), second_half.begin());
second_half(samples) == SubSeq(samples, SAMPLES + 1, 2 * SAMPLES)

\* std::accumulate(first, first + n, (uint64_t)0) over seq[from+1 .. from+n]
RECURSIVE accumulate(_, _, _)
accumulate(seq, from, n) ==
    IF n = 0 THEN 0 ELSE seq[from + n] + accumulate(seq, from, n - 1)

\* uint64_t tsc_from_cal(), from the sorting of the second half on
tsc_from_cal(samples) ==
    LET sorted == sort_u64(second_half(samples))
        third_quintile == (2 * SAMPLES) \div 5
        sum == accumulate(sorted, third_quintile, SAMPLES \div 5)
    IN  sum \div (SAMPLES \div 5)

InitTscCal ==
    /\ \E a \in FirstHalves, b \in SecondHalves : cal_samples = a \o b
    /\ cal_ret = NotCalled
    /\ tf_in = << >>
    /\ tf_ret = NotCalled
    /\ tf_info = NotCalled
    /\ ClockIdle
    /\ MsrIdle
    /\ WarmIdle
    /\ AnalysisIdle
    /\ TrialIdle
    /\ BarrierIdle
    /\ MainIdle
    /\ ThreadsIdle

\* get_tsc_freq's call of tsc_from_cal() (tsc-support.cpp 114)
CAL_TscFromCal ==
    /\ cal_ret.kind = "none"
    /\ cal_ret' = Returned(tsc_from_cal(cal_samples))
    /\ UNCHANGED <<cal_samples, tscVars, clockVars, msrVars, warmVars,
                   cn_ndebug, cn_in, cn_ret, cn_ret2, cn_ratio,
                   nestVars, trialVars, barVars, mainVars, thrVars>>

NextTscCal == CAL_TscFromCal

SpecTscCal == InitTscCal /\ [][NextTscCal]_vars

\* the k-th smallest element of seq (k from 1), by counting
OrderStatistic(seq, k) ==
    CHOOSE v \in Range(seq) :
        /\ Cardinality({i \in 1 .. Len(seq) : seq[i] < v}) < k
        /\ Cardinality({i \in 1 .. Len(seq) : seq[i] <= v}) >= k

\* the ranks of the middle elements: SAMPLES/5 of them from index
\* 2 x SAMPLES/5 of the sorted second half
MiddleRanks == ((2 * SAMPLES) \div 5 + 1) .. ((2 * SAMPLES) \div 5 + SAMPLES \div 5)

RECURSIVE SumOfRanks(_, _)
SumOfRanks(seq, ranks) ==
    IF ranks = {} THEN 0
    ELSE LET k == CHOOSE k \in ranks : TRUE IN
         OrderStatistic(seq, k) + SumOfRanks(seq, ranks \ {k})

LastSamples == SubSeq(cal_samples, Len(cal_samples) - SAMPLES + 1, Len(cal_samples))

\* C23: the result of tsc_from_cal depends only on the last SAMPLES of the
\* 2 x SAMPLES samples (it is the result for the same last half after any
\* first half) and equals the integer mean of the SAMPLES/5 consecutive
\* elements from index 2 x SAMPLES/5 of the sorted second half; hence it lies
\* between the smallest and the largest of these middle elements, whatever
\* the values in the lower and the upper tail.
C23_MeanOfMiddleQuintile ==
    cal_ret.kind = "ret" =>
        /\ cal_ret.val = SumOfRanks(LastSamples, MiddleRanks) \div (SAMPLES \div 5)
        /\ \A k \in MiddleRanks :
              (\A j \in MiddleRanks : k <= j)
                  => OrderStatistic(LastSamples, k) <= cal_ret.val
        /\ \A k \in MiddleRanks :
              (\A j \in MiddleRanks : j <= k)
                  => cal_ret.val <= OrderStatistic(LastSamples, k)
        /\ \A a \in FirstHalves : cal_ret.val = tsc_from_cal(a \o LastSamples)

\* tsc_from_cal returned for samples whose first half lies far above the
\* second, whose middle elements differ (the mean is rounded down) and
\* whose tails hold the slowest and the fastest measurement
C23_Witness ==
    /\ cal_ret.kind = "ret"
    /\ \A i \in 1 .. SAMPLES : cal_samples[i] = 10 * MaxSample
    /\ OrderStatistic(LastSamples, (2 * SAMPLES) \div 5 + 1) = 1
    /\ OrderStatistic(LastSamples, (2 * SAMPLES) \div 5 + SAMPLES \div 5) = MaxSample
    /\ cal_ret.val = (1 + MaxSample) \div 2
    /\ OrderStatistic(LastSamples, 1) = 1
    /\ OrderStatistic(LastSamples, SAMPLES) = MaxSample

(***************************************************************************)
(* SpecMsr: read_msr and get_rfile (msr-access.c 45-96), called by the     *)
(* threads for any cpu.  The mutex makes the body of get_rfile one step.   *)
(***************************************************************************)
\* STATIC_ARRAY_SIZE (32 in the build, msr-access.c 23)
STATIC_ARRAY_SIZE == 1

\* the cpu arguments: up to twice the size of the static array
MsrCpus == 0 .. (2 * STATIC_ARRAY_SIZE)

\* errno of a failed open(): ENOENT (no msr module), EACCES (not root)
OpenErrnos == {2, 13}
\* errno of a failed pread(): EIO
PreadErrnos == {5}

\* what open("/dev/cpu/%d/msr", O_RDONLY) returns as the n-th open of the
\* process: the next descriptor after the standard streams, or -1 with errno
\* set; and what get_rfile stores for it (msr-access.c 73-76)
opened(n) == {3 + n} \cup {-e : e \in OpenErrnos}

\* what an int read beyond the end of the calloc'ed block can hold: zero,
\* or the bits of whatever the allocator keeps there
BeyondReads == {0, 33}

\* size_t new_size = rfile_size * 2 > cpu ? rfile_size * 2 : cpu;
new_size(size, cpu) == IF size * 2 > cpu THEN size * 2 ELSE cpu

\* calloc + memcpy: the old entries, then zeros
grown(array, size) == [i \in 1 .. size |-> IF i <= Len(array) THEN array[i] ELSE 0]

TotalOpens == LET RECURSIVE total(_)
                  total(c) == IF c < 0 THEN 0 ELSE ms_opens[c] + total(c - 1)
              IN  total(2 * STATIC_ARRAY_SIZE)

InitMsr ==
    /\ ms_size = STATIC_ARRAY_SIZE
    /\ ms_array = [i \in 1 .. STATIC_ARRAY_SIZE |-> 0]
    /\ ms_lock = -1
    /\ ms_pc = [t \in Threads |-> "out"]
    /\ ms_cpu = [t \in Threads |-> 0]
    /\ ms_file = [t \in Threads |-> 0]
    /\ ms_calls = [t \in Threads |-> 0]
    /\ ms_opens = [c \in MsrCpus |-> 0]
    /\ ms_rets = [c \in MsrCpus |-> << >>]
    /\ ms_beyond = FALSE
    /\ ClockIdle
    /\ TscIdle
    /\ WarmIdle
    /\ AnalysisIdle
    /\ TrialIdle
    /\ BarrierIdle
    /\ MainIdle
    /\ ThreadsIdle

\* a thread calls read_msr(cpu, ...), which calls get_rfile(cpu)
MS_Call(t) ==
    /\ ms_pc[t] = "out"
    /\ ms_calls[t] < MaxCalls
    /\ ms_calls' = [ms_calls EXCEPT ![t] = @ + 1]
    /\ \E c \in MsrCpus : ms_cpu' = [ms_cpu EXCEPT ![t] = c]
    /\ ms_pc' = [ms_pc EXCEPT ![t] = "lock"]
    /\ UNCHANGED <<ms_size, ms_array, ms_lock, ms_file, ms_opens, ms_rets,
                   ms_beyond, clockVars, tscVars, calVars, warmVars,
                   cn_ndebug, cn_in, cn_ret, cn_ret2, cn_ratio,
                   nestVars, trialVars, barVars, mainVars, thrVars>>

\* lock(): pthread_mutex_lock
MS_Lock(t) ==
    /\ ms_pc[t] = "lock"
    /\ ms_lock = -1
    /\ ms_lock' = t
    /\ ms_pc' = [ms_pc EXCEPT ![t] = "locked"]
    /\ UNCHANGED <<ms_size, ms_array, ms_cpu, ms_file, ms_calls, ms_opens,
                   ms_rets, ms_beyond, clockVars, tscVars, calVars, warmVars,
                   cn_ndebug, cn_in, cn_ret, cn_ret2, cn_ratio,
                   nestVars, trialVars, barVars, mainVars, thrVars>>

\* the body of get_rfile between lock() and unlock(): the array grows when
\* cpu >= rfile_size, the device is opened when rfile_array[cpu] is zero
\* and the outcome is stored, and rfile_array[cpu] is what is returned.
\* When cpu is not below the new size, rfile_array[cpu] lies beyond the
\* block: the read finds any value, and the store does not reach the array.
MS_GetRfile(t) ==
    LET cpu == ms_cpu[t]
        size == IF cpu >= ms_size THEN new_size(ms_size, cpu) ELSE ms_size
        array == IF cpu >= ms_size THEN grown(ms_array, size) ELSE ms_array
    IN
    /\ ms_pc[t] = "locked"
    /\ ms_size' = size
    /\ \E cell \in IF cpu < size THEN {array[cpu + 1]} ELSE BeyondReads :
          IF cell = 0
          THEN \E o \in opened(TotalOpens) :
                  /\ ms_opens' = [ms_opens EXCEPT ![cpu] = @ + 1]
                  /\ ms_array' = IF cpu < size
                                 THEN [array EXCEPT ![cpu + 1] = o]
                                 ELSE array
                  /\ ms_file' = [ms_file EXCEPT ![t] = o]
          ELSE /\ ms_array' = array
               /\ ms_file' = [ms_file EXCEPT ![t] = cell]
               /\ UNCHANGED ms_opens
    /\ ms_beyond' = (ms_beyond \/ cpu >= size)
    /\ ms_pc' = [ms_pc EXCEPT ![t] = "unlock"]
    /\ UNCHANGED <<ms_lock, ms_cpu, ms_calls, ms_rets,
                   clockVars, tscVars, calVars, warmVars,
                   cn_ndebug, cn_in, cn_ret, cn_ret2, cn_ratio,
                   nestVars, trialVars, barVars, mainVars, thrVars>>

\* unlock(); return ret;
MS_Unlock(t) ==
    /\ ms_pc[t] = "unlock"
    /\ ms_lock' = -1
    /\ ms_pc' = [ms_pc EXCEPT ![t] = "file"]
    /\ UNCHANGED <<ms_size, ms_array, ms_cpu, ms_file, ms_calls, ms_opens,
                   ms_rets, ms_beyond, clockVars, tscVars, calVars, warmVars,
                   cn_ndebug, cn_in, cn_ret, cn_ret2, cn_ratio,
                   nestVars, trialVars, barVars, mainVars, thrVars>>

\* read_msr after get_rfile: a negative file is returned as it is, else
\* pread() and 0 or errno
MS_ReadMsrReturn(t) ==
    /\ ms_pc[t] = "file"
    /\ \E ret \in IF ms_file[t] < 0 THEN {ms_file[t]} ELSE {0} \cup PreadErrnos :
          ms_rets' = [ms_rets EXCEPT ![ms_cpu[t]] = Append(@, ret)]
    /\ ms_pc' = [ms_pc EXCEPT ![t] = "out"]
    /\ UNCHANGED <<ms_size, ms_array, ms_lock, ms_cpu, ms_file, ms_calls,
                   ms_opens, ms_beyond, clockVars, tscVars, calVars, warmVars,
                   cn_ndebug, cn_in, cn_ret, cn_ret2, cn_ratio,
                   nestVars, trialVars, barVars, mainVars, thrVars>>

NextMsr ==
    \E t \in Threads :
        \/ MS_Call(t)
        \/ MS_Lock(t)
        \/ MS_GetRfile(t)
        \/ MS_Unlock(t)
        \/ MS_ReadMsrReturn(t)

SpecMsr == InitMsr /\ [][NextMsr]_vars

OpenedAtMostOnce == \A c \in DOMAIN ms_opens : ms_opens[c] <= 1

NegativeIsKept ==
    \A c \in DOMAIN ms_rets :
        \A i, j \in 1 .. Len(ms_rets[c]) :
            (i < j /\ ms_rets[c][i] < 0) => ms_rets[c][j] = ms_rets[c][i]

EntriesPreserved ==
    \A i \in 1 .. Len(ms_array) :
        ms_array[i] # 0 => (i <= Len(ms_array') /\ ms_array'[i] = ms_array[i])

\* C24: under any interleaving of read_msr / get_rfile calls from several
\* threads the MSR device file of a cpu is opened at most once; once
\* read_msr has returned a negative value for a cpu, every later read_msr
\* for that cpu returns the same negative value; and a step that grows the
\* cache keeps every entry that was cached.
C24_OpenedOnceAndCached ==
    /\ [](OpenedAtMostOnce /\ NegativeIsKept)
    /\ [][EntriesPreserved]_vars

\* what holds of the code: the statement of C24 as long as no call has
\* indexed rfile_array beyond its end, and the entries inside the array in
\* every case
CachedWhileInsideArray ==
    ~ms_beyond => (OpenedAtMostOnce /\ NegativeIsKept)

EntriesPreservedAlways == [][EntriesPreserved]_vars

\* the array is indexed beyond its end exactly by a call whose cpu is at
\* least twice the size the array has
BeyondNeedsTwiceTheSize ==
    [][ms_beyond' # ms_beyond =>
          \E t \in Threads : ms_pc[t] = "locked" /\ ms_cpu[t] >= 2 * ms_size]_vars

(***************************************************************************)
(* The barriers of the running spec, in Spec.                              *)
(***************************************************************************)
\* the positions of a thread after start_barrier->wait()'s increment()
PastStartInc ==
    {"sb_spin", "start_ts", "rt_entry", "ostart_ts", "istart_ts", "outer_start",
     "t0", "t1", "t2", "outer_stop", "iend_ts", "stop_inc", "drain_chk",
     "drain_func", "oend_ts", "stats", "end_ts", "aperf", "done"}

\* the positions of a thread after the increment() of the stop barrier
PastStopInc ==
    {"drain_chk", "drain_func", "oend_ts", "stats", "end_ts", "aperf", "done"}

ArrivalsWithinBreakCount ==
    /\ start.current <= start.break_count
    /\ stop.current <= stop.break_count
    /\ start.current =
          IF arg_nobarrier THEN 0
          ELSE Cardinality({t \in Threads : pc[t] \in PastStartInc})
    /\ stop.current = Cardinality({t \in Threads : pc[t] \in PastStopInc})

\* a step inside the execution of one spec: main stays in its turn of the
\* loop and does not construct the barriers
WithinSpec == si' = si /\ mpc # "head"

BrokenStaysBroken ==
    WithinSpec =>
        /\ is_broken(start) => is_broken(start')
        /\ is_broken(stop) => is_broken(stop')

\* C25: during the execution of any spec the arrival counter of the start
\* barrier and of the stop barrier never exceeds break_count: it counts the
\* threads of the spec that are past their one increment() of the barrier,
\* and the barriers are constructed anew for each spec; hence a barrier
\* that is broken stays broken for the rest of that spec's execution.
C25_NeverBeyondBreakCount ==
    /\ []ArrivalsWithinBreakCount
    /\ [][BrokenStaysBroken]_vars

\* the second spec of the sweep, run by MaxCpus threads, has both barriers
\* broken while a thread is at the loop condition that polls the stop
\* barrier and another has left the loop
C25_Witness ==
    /\ si = 2
    /\ ~arg_nobarrier
    /\ start = [break_count |-> MaxCpus, current |-> MaxCpus]
    /\ stop = [break_count |-> MaxCpus, current |-> MaxCpus]
    /\ \E t \in Threads : pc[t] = "drain_chk"
    /\ \E t \in Threads : pc[t] = "end_ts"

(***************************************************************************)
(* Claims about run_test and the statements of operator() around it, in    *)
(* SpecTrial.                                                              *)
(***************************************************************************)
\* the counter has not wrapped around since the first read
CounterMonotonic == tr_tsc - tr_elapsed >= 0

\* operator() has set every timestamp of res
ResultComplete == tr_pc \in {"aperf", "done"}

\* C26: given a monotonically non-decreasing counter, every ThreadResult
\* satisfies start_ts <= ostart_ts <= istart_ts <= iend_ts <= oend_ts <=
\* end_ts.
C26_StampsInOrder ==
    (ResultComplete /\ CounterMonotonic) =>
        \A i, j \in 1 .. Len(StampFields) :
            i < j => tr_res[StampFields[i]] <= tr_res[StampFields[j]]

\* a complete result of a run in which the counter did not wrap, the
\* passes, the polling loop and the timer's reads all took time
C26_Witness ==
    /\ tr_pc = "done"
    /\ CounterMonotonic
    /\ tr_use_aperf
    /\ tr_drain > 0
    /\ tr_res["start_ts"] < tr_res["istart_ts"]
    /\ tr_res["istart_ts"] < tr_res["iend_ts"]
    /\ tr_res["iend_ts"] < tr_res["oend_ts"]
    /\ tr_res["oend_ts"] = tr_res["end_ts"]

\* the samples of the pass that is running (or of the last pass) whose two
\* calls are both on record
Measured == {i \in StoredSlots : tr_pc # "t2" \/ i <= tr_r}

\* C27: every trial sample stored by run_test is a non-negative time
\* delta: the unsigned computation (t2 - t1) - (t1 - t0) never wraps around,
\* i.e. the stored value is what the call at 2N iterations took minus what
\* the call at N iterations took, whatever the two durations.
C27_SampleNeverWraps ==
    \A i \in Measured :
        /\ tr_took[i][2] - tr_took[i][1] >= 0
        /\ tr_results[i] = tr_took[i][2] - tr_took[i][1]

\* what holds of the code: the sample is that difference modulo 2^64, so
\* it is not wrapped exactly when the second call took no less than the
\* first
SampleIsDifferenceModulo ==
    \A i \in Measured :
        tr_results[i] = (tr_took[i][2] - tr_took[i][1] + TscModulus) % TscModulus

\* the throughput and the inner interval that the measurements on record
\* for the last pass give
LastPass == tr_hist[Len(tr_hist)]

SamplesOf(pass) ==
    [i \in 1 .. TRIES |-> USub(pass.took[i][2], pass.took[i][1])]

RunTestReturned == tr_pc \in {"end_ts", "aperf", "done"}

\* C29: run_test performs exactly WARMUP+1 passes of exactly TRIES trials
\* each; the throughput is iters divided by the median of the TRIES samples
\* recorded in the last pass only, and the reported inner interval
\* [istart_ts, iend_ts] is that of the last pass.
C29_LastPassOnly ==
    RunTestReturned =>
        /\ Len(tr_hist) = WARMUP + 1
        /\ \A p \in 1 .. Len(tr_hist) : tr_hist[p].trials = TRIES
        /\ tr_results = SamplesOf(LastPass)
        /\ tr_mops.kind = "ret"
        /\ tr_mops.val = FDiv(ToDouble(tr_iters),
                              getMedian([i \in 1 .. TRIES |->
                                  to_nanos(SamplesOf(LastPass)[i], tr_freq)]))
        /\ tr_res["istart_ts"] = LastPass.istart_ts
        /\ tr_res["iend_ts"] = LastPass.iend_ts

\* run_test has returned a finite throughput after a last pass whose
\* samples differ from those of the pass before
C29_Witness ==
    /\ tr_pc = "done"
    /\ WARMUP >= 1
    /\ SamplesOf(tr_hist[1]) # SamplesOf(LastPass)
    /\ tr_hist[1].istart_ts # LastPass.istart_ts
    /\ tr_mops.kind = "ret"
    /\ ~IsNaN(tr_mops.val) /\ ~IsInf(tr_mops.val)
    /\ tr_mops.val.num > 0

\* the calls of outer.start() and outer.stop() and the clock reads that
\* open and close a trial, in the order of the log
Marks == SelectSeq(tr_log, LAMBDA e : e \in {"start", "stop", "t0", "t2"})

\* one pass: start(), TRIES trials, stop()
PassMarks ==
    <<"start">> \o [i \in 1 .. 2 * TRIES |-> IF i % 2 = 1 THEN "t0" ELSE "t2"]
                \o <<"stop">>

\* no MSR read lies between the first and the last clock read of a trial
NoMsrInsideTrial ==
    \A j \in 1 .. Len(tr_log) :
        tr_log[j] = "msr" =>
            \A i \in 1 .. j - 1 :
                tr_log[i] = "t0" => \E k \in (i + 1) .. (j - 1) : tr_log[k] = "t2"

\* C30: in run_test the auxiliary timer's start() and stop(), the only MSR
\* reads of a measurement thread, strictly alternate, one start() right
\* before and one stop() right after the TRIES-trial loop of each pass; no
\* MSR read happens between the first and the last clock read of a trial;
\* the assertions on the timer's state never fail, and am_ratio() and
\* mt_ratio() are evaluated only in state STOPPED.
C30_TimerAlternates ==
    /\ \A i \in 1 .. Len(Marks) : Marks[i] = PassMarks[((i - 1) % Len(PassMarks)) + 1]
    /\ \A i \in 1 .. Len(tr_log) :
          tr_log[i] = "msr" =>
              \E j \in 1 .. i : /\ tr_log[j] \in {"start", "stop"}
                                /\ i - j <= 2
                                /\ \A k \in (j + 1) .. i : tr_log[k] = "msr"
    /\ NoMsrInsideTrial
    /\ tr_timer.failed = {}
    /\ tr_pc # "aborted"
    /\ (tr_use_aperf /\ tr_pc = "done") => tr_timer.state = "STOPPED"
    /\ (tr_timer.state = "STARTED") <=>
          (tr_use_aperf /\ tr_pc \in {"t0", "t1", "t2", "pass_end"})

\* a thread with the aperf_ghz timer has evaluated both ratios after
\* WARMUP+1 passes, each with its start() and its stop() and their MSR reads
C30_Witness ==
    /\ tr_use_aperf
    /\ tr_pc = "done"
    /\ Len(Marks) = (WARMUP + 1) * Len(PassMarks)
    /\ Len(SelectSeq(tr_log, LAMBDA e : e = "msr")) = 4 * (WARMUP + 1)
    /\ tr_log[Len(tr_log)] = "mt_ratio"
    /\ tr_timer = aperf_ghz

(***************************************************************************)
(* The loop that polls the stop barrier (avx-turbo.cpp 409-411), in Spec.  *)
(***************************************************************************)
\* the positions of that loop: its condition and its body
InPollingLoop == {"drain_chk", "drain_func"}

\* what one step does to thread t from the increment() of the stop barrier
\* to the end of the loop: the increment is made once, on entry; a check
\* of is_broken() is followed by one call of the workload or, when it
\* returned true, by leaving the loop; a call of the workload is followed
\* by a check
PollingStep(t) ==
    /\ (pc[t] = "iend_ts" /\ pc'[t] # pc[t]) =>
          pc'[t] \in {"istart_ts", "stop_inc"} /\ stop' = stop
    /\ (pc[t] = "stop_inc" /\ pc'[t] # pc[t]) =>
          pc'[t] = "drain_chk" /\ stop' = increment(stop)
    /\ (pc[t] = "drain_chk" /\ pc'[t] # pc[t]) =>
          /\ pc'[t] = IF is_broken(stop) THEN "oend_ts" ELSE "drain_func"
          /\ stop' = stop
    /\ (pc[t] = "drain_func" /\ pc'[t] # pc[t]) =>
          pc'[t] = "drain_chk" /\ stop' = stop
    /\ (pc[t] \notin InPollingLoop \cup {"stop_inc"} /\ pc'[t] \in InPollingLoop) =>
          FALSE
    /\ (pc[t] \in InPollingLoop \cup {"stop_inc"} /\ pc'[t] = pc[t] /\ WithinSpec) =>
          stop'.current - stop.current
              = Cardinality({u \in Threads : pc[u] = "stop_inc" /\ pc'[u] # pc[u]})

\* a thread in the loop is never blocked: its next statement can be taken
NeverBlockedWhilePolling ==
    \A t \in Threads :
        (Running /\ pc[t] \in InPollingLoop \cup {"stop_inc"}) => ENABLED ThreadStep(t)

\* C28: after its last timed pass a thread increments the stop barrier
\* exactly once and then, until it observes the barrier broken, performs
\* only is_broken() checks and workload invocations, with exactly one check
\* before each invocation; it never blocks or idles in this phase and
\* invokes the workload no more after observing the barrier broken.
C28_PollsAndRunsUntilBroken ==
    /\ []NeverBlockedWhilePolling
    /\ [][\A t \in Threads : PollingStep(t)]_vars

\* a thread is about to call the workload after a check that found the
\* stop barrier unbroken, while another thread has not yet arrived at it
C28_Witness ==
    /\ \E t \in Threads : pc[t] = "drain_func"
    /\ \E t \in Threads : pc[t] = "t1" /\ w[t] = WARMUP
    /\ stop.current = 1
    /\ stop.break_count = MaxCpus


\* ---------------------------------------------------------------------
\* use_aperf false: the thread times with dummy_outer::dummy

\* the thread has made no MSR read
NoMsrRead == \A i \in 1 .. Len(tr_log) : tr_log[i] # "msr"

\* aperf_timer is as its constructor has left it
TimerUntouched == tr_timer = aperf_ghz

\* C31: when use_aperf is false, the thread times with the no-op timer, makes
\* no MSR read during its measurement, never ends in a failed assertion, and
\* its result has 0.0 for both auxiliary ratios once operator() has returned.
C31_NoAperfMeasuresWithoutMsr ==
    ~tr_use_aperf /\ tr_pc # "idle" =>
        /\ NoMsrRead
        /\ TimerUntouched
        /\ tr_pc # "aborted"
        /\ tr_pc = "done" =>
              /\ tr_ratios = [aperf_am |-> ToDouble(0), aperf_mt |-> ToDouble(0)]
              /\ \A f \in Range(StampFields) : tr_res[f] # -1
              /\ tr_mops.kind = "ret"

\* a thread without the counters has returned from operator() after its
\* passes, and its log has the start() and stop() calls of every pass
C31_Witness ==
    /\ ~tr_use_aperf
    /\ tr_pc = "done"
    /\ Len(tr_hist) = WARMUP + 1
    /\ Cardinality({i \in 1 .. Len(tr_log) : tr_log[i] = "start"}) = WARMUP + 1
    /\ tr_mops.kind = "ret"


\* ---------------------------------------------------------------------
\* the ISA of the workloads that threads are started with

\* the catalog entries of the threads constructed for the running spec
StartedFuncs ==
    IF nthreads > 0
    THEN {find_one_test(CurSpec.thread_funcs[i]) : i \in 1 .. nthreads}
    ELSE {}

\* C32: every workload placed in an executed spec has a required ISA mask
\* that is a subset of the detected hardware capability set, whether the
\* specs come from the default sweep, from --test, or from --spec.
C32_RequiredIsaSupported ==
    \A t \in StartedFuncs : t.isa \subseteq isas_supported

\* the same for the specs of make_default_tests alone (with and without
\* --test)
DefaultSweepIsaSupported ==
    ~arg_spec.set => \A t \in StartedFuncs : t.isa \subseteq isas_supported

\* a thread is started with a workload the hardware cannot execute only
\* under --spec
UnsupportedOnlyFromSpec ==
    (\E t \in StartedFuncs : ~should_run(t, isas_supported)) => arg_spec.set


(***************************************************************************)
(* SpecWarm: one thread from warmup::warm to the first workload call of    *)
(* run_test (avx-turbo.cpp 602-613, 649-657, 393-399)                      *)
(***************************************************************************)
\* the nanoseconds of a millisecond (1000000u in the build)
NanosPerMilli == 2
\* largest --warmup-ms drawn
MaxMillis == 2

\* 1000000u * millis, a uint64_t
budget_none(millis) == 0
budget(millis) == (NanosPerMilli * millis) % TscModulus

\* while (RdtscClock::to_nanos(RdtscClock::now() - start) < 1000000u * millis)
warm_continues(now, start_, freq, millis) ==
    to_nanos(USub(now, start_), freq) < budget(millis)

InitWarm ==
    /\ wm_pc = "warm"
    /\ wm_tsc \in {0, TscModulus - 1}
    /\ wm_freq \in FreqsDrawn
    /\ wm_millis \in 0 .. MaxMillis
    /\ wm_nobarrier \in BOOLEAN
    /\ wm_start = 0
    /\ wm_iters = 0
    /\ wm_elapsed = 0
    /\ wm_log = << >>
    /\ AnalysisIdle
    /\ TrialIdle
    /\ ClockIdle
    /\ TscIdle
    /\ MsrIdle
    /\ BarrierIdle
    /\ MainIdle
    /\ ThreadsIdle

\* d ticks of the counter pass
WarmElapse(d) ==
    /\ wm_tsc' = (wm_tsc + d) % TscModulus
    /\ wm_elapsed' = wm_elapsed + d

\* warm(): int64_t start = (int64_t)RdtscClock::now(); long iters = 0;
WM_WarmStart ==
    /\ wm_pc = "warm"
    /\ wm_start' = wm_tsc
    /\ wm_iters' = 0
    /\ wm_log' = Append(wm_log, "warm")
    /\ wm_pc' = "warm_poll"
    /\ UNCHANGED <<wm_tsc, wm_freq, wm_millis, wm_nobarrier, wm_elapsed,
                   clockVars, tscVars, calVars, msrVars,
                   cn_ndebug, cn_in, cn_ret, cn_ret2, cn_ratio, nestVars,
                   trialVars, barVars, mainVars, thrVars>>

\* one evaluation of the loop condition, the counter having advanced since
\* the read before; iters++ when it holds, return iters when it does not;
\* then if (!arg_nobarrier) ...
WM_WarmPoll ==
    /\ wm_pc = "warm_poll"
    /\ \E d \in 1 .. (MaxJitter + 1) : WarmElapse(d)
    /\ wm_log' = Append(wm_log, "now")
    /\ IF warm_continues(wm_tsc', wm_start, wm_freq, wm_millis)
       THEN /\ wm_iters' = wm_iters + 1
            /\ wm_pc' = wm_pc
       ELSE /\ wm_iters' = wm_iters
            /\ wm_pc' = IF wm_nobarrier THEN "start_ts" ELSE "wait"
    /\ UNCHANGED <<wm_freq, wm_millis, wm_nobarrier, wm_start,
                   clockVars, tscVars, calVars, msrVars,
                   cn_ndebug, cn_in, cn_ret, cn_ret2, cn_ratio, nestVars,
                   trialVars, barVars, mainVars, thrVars>>

\* long count = start_barrier->wait();  (the other threads arrive)
WM_Wait ==
    /\ wm_pc = "wait"
    /\ \E d \in 0 .. MaxJitter : WarmElapse(d)
    /\ wm_log' = Append(wm_log, "wait")
    /\ wm_pc' = "start_ts"
    /\ UNCHANGED <<wm_freq, wm_millis, wm_nobarrier, wm_start, wm_iters,
                   clockVars, tscVars, calVars, msrVars,
                   cn_ndebug, cn_in, cn_ret, cn_ret2, cn_ratio, nestVars,
                   trialVars, barVars, mainVars, thrVars>>

\* res.start_ts = RdtscClock::now();
WM_StartTs ==
    /\ wm_pc = "start_ts"
    /\ wm_log' = Append(wm_log, "start_ts")
    /\ wm_pc' = "run_test"
    /\ UNCHANGED <<wm_tsc, wm_freq, wm_millis, wm_nobarrier, wm_start, wm_iters,
                   wm_elapsed,
                   clockVars, tscVars, calVars, msrVars,
                   cn_ndebug, cn_in, cn_ret, cn_ret2, cn_ratio, nestVars,
                   trialVars, barVars, mainVars, thrVars>>

\* run_test up to the first trial: result.ostart_ts, result.istart_ts,
\* outer.start(), t0, func(iters)
WM_RunTest ==
    /\ wm_pc = "run_test"
    /\ \E d \in 0 .. MaxJitter : WarmElapse(d)
    /\ wm_log' = wm_log \o <<"ostart_ts", "istart_ts", "start", "t0", "func">>
    /\ wm_pc' = "trial"
    /\ UNCHANGED <<wm_freq, wm_millis, wm_nobarrier, wm_start, wm_iters,
                   clockVars, tscVars, calVars, msrVars,
                   cn_ndebug, cn_in, cn_ret, cn_ret2, cn_ratio, nestVars,
                   trialVars, barVars, mainVars, thrVars>>

NextWarm ==
    \/ WM_WarmStart
    \/ WM_WarmPoll
    \/ WM_Wait
    \/ WM_StartTs
    \/ WM_RunTest

SpecWarm == InitWarm /\ [][NextWarm]_vars

\* the thread is inside warm()
Warming == wm_pc \in {"warm", "warm_poll"}

\* the calls the thread has made since it entered warm()
LoggedCalls == Range(wm_log)

\* the time since warm() read start is no less than the budget, in
\* nanoseconds
BudgetElapsed ==
    wm_elapsed * NanosPerSecond >= NanosPerMilli * wm_millis * wm_freq

\* the warmup is over before the thread arrives at the start barrier and
\* before any timestamp of its result is taken
WarmupComesFirst ==
    /\ Warming => LoggedCalls \subseteq {"warm", "now"}
    /\ ~Warming => BudgetElapsed

CallsOf(names) == {i \in 1 .. Len(tr_log) : tr_log[i] \in names}

\* the hooks that are enabled have run n times each, the others never
HooksRan(n) ==
    \A h \in Hooks :
        Cardinality(CallsOf({h})) = IF h \in tr_dirty THEN n ELSE 0

\* the passes, trials and workload calls of run_test are those of a run
\* without hooks
ProtocolUnchanged ==
    /\ Len(tr_hist) = WARMUP + 1
    /\ Cardinality(CallsOf({"t0"})) = (WARMUP + 1) * TRIES
    /\ Cardinality(CallsOf({"func"})) = 2 * (WARMUP + 1) * TRIES + tr_drain
    /\ Cardinality(CallsOf({"start"})) = WARMUP + 1

\* C34 as stated: when a dirty option is enabled the hook runs before each
\* trial, once per trial in every pass of run_test, and nothing else in the
\* trial protocol changes.
C34_HookBeforeEachTrial ==
    tr_pc = "done" =>
        /\ HooksRan((WARMUP + 1) * TRIES)
        /\ \A i \in CallsOf({"t0"}) :
              \A h \in tr_dirty : \E j \in CallsOf({h}) :
                  /\ j < i
                  /\ \A k \in CallsOf({"t0"}) : k < i => k < j
        /\ ProtocolUnchanged

\* C34, amended: when a dirty option is enabled the hook runs once per call
\* of run_test, before its first pass, and nothing else in the trial
\* protocol changes.
C34_HookOncePerRunTest ==
    /\ tr_pc \in {"start_ts", "ostart_ts"} => HooksRan(0)
    /\ tr_pc \notin {"idle", "start_ts", "ostart_ts"} =>
          /\ HooksRan(1)
          /\ \A i \in CallsOf(Hooks) : \A j \in CallsOf({"start", "t0", "func"}) : i < j
    /\ tr_pc = "done" => ProtocolUnchanged

\* a thread with both hooks enabled has returned from run_test after all
\* its passes
C34_Witness ==
    /\ tr_dirty = Hooks
    /\ tr_pc = "done"
    /\ Cardinality(CallsOf({"t0"})) = (WARMUP + 1) * TRIES
    /\ Cardinality(CallsOf(Hooks)) = 2


\* ---------------------------------------------------------------------
\* the order of equal stamps after std::sort, and the counter of the sweep

\* count before the event at position k is processed (util.hpp 82, 95): the
\* START events less the STOP events before it
count_before(es, k) ==
    Cardinality({i \in 1 .. (k - 1) : es[i].type = "START"})
    - Cardinality({i \in 1 .. (k - 1) : es[i].type = "STOP"})

\* the sweep over es meets a STOP event at count 0
StopAtZero(es) ==
    \E k \in 1 .. Len(es) : es[k].type = "STOP" /\ count_before(es, k) = 0

\* the orders std::sort can leave the events of the input in
SortedOrders == std_sort(events(cn_in))

\* C35: for every input with start <= end and every order in which the
\* non-stable sort may place events of equal stamp, the active counter never
\* goes below zero (no STOP event is processed at count 0, so the in-loop
\* assertion holds), it is 0 after the last event, and the returned pair does
\* not depend on that order.
C35_TieOrderIsHarmless ==
    cn_ret.kind # "none" =>
        /\ \A s \in SortedOrders :
              /\ ~StopAtZero(s)
              /\ count_before(s, Len(s) + 1) = 0
        /\ cn_ret.kind = "ret"
        /\ \A o \in concurrency(cn_in, cn_ndebug) : o.kind = cn_ret.kind

\* a STOP event is met at count 0 only on an input with a zero-length
\* interval; the counter is 0 after the last event in every order
StopAtZeroOnlyWithZeroLength ==
    \A s \in SortedOrders :
        /\ StopAtZero(s) => \E i \in 1 .. Len(cn_in) : cn_in[i][1] = cn_in[i][2]
        /\ count_before(s, Len(s) + 1) = 0

\* the calls that return, return the same pair in every order
ReturnedPairsAgree ==
    \A o, p \in concurrency(cn_in, cn_ndebug) :
        o.kind = "ret" /\ p.kind = "ret" => o.val = p.val

\* the call ends in abort() exactly when the build has assertions and the
\* order it sorted the events into has a STOP at count 0
AbortIsStopAtZero ==
    (\E o \in concurrency(cn_in, cn_ndebug) : o.kind = "abort")
        <=> (~cn_ndebug /\ \E s \in SortedOrders : StopAtZero(s))


\* ---------------------------------------------------------------------
\* the size of the cache after the growth step of get_rfile

\* the threads that have passed the growth step and the accesses to
\* rfile_array[cpu], and still hold the lock
PastGrowth == {t \in Threads : ms_pc[t] = "unlock"}

\* C36: for every cpu >= 0 and every cache size, after the growth step of
\* get_rfile the cache size is strictly greater than cpu, so rfile_array[cpu]
\* is read and written within the bounds of the array (also when cpu is at
\* least twice the size).
C36_SizeExceedsCpu ==
    /\ \A t \in PastGrowth : ms_cpu[t] < ms_size
    /\ ~ms_beyond

\* what the growth step does reach: a size of at least cpu, one short of
\* the index when cpu was at least twice the size
SizeReachesCpu ==
    \A t \in PastGrowth : ms_cpu[t] <= ms_size


\* ---------------------------------------------------------------------
\* the lookups cpu_ids[threads.size()] of main

\* the indexes main has looked up in cpu_ids for the running spec
LookedUp == {t \in Threads : pc[t] # "unspawned"}

\* C37: for every spec executed and every thread index i < count(), the
\* lookup cpu_ids[i] that chooses the thread's CPU is within the bounds of
\* cpu_ids, whether cpu_ids was built from --cpuids or by default.
C37_CpuIdLookupInBounds ==
    \A i \in LookedUp : i < Len(cpu_ids)

\* the same for the cpu_ids main builds without --cpuids
DefaultCpuIdsInBounds ==
    ~arg_cpuids.set => \A i \in LookedUp : i < Len(cpu_ids)

\* a lookup beyond the end of cpu_ids: the list of --cpuids is shorter than
\* the spec has threads
BeyondCpuIdsOnlyWhenShort ==
    \A i \in LookedUp :
        i >= Len(cpu_ids) => (arg_cpuids.set /\ Len(arg_cpuids.val) < count(CurSpec))


(***************************************************************************)
(* The outer intervals of the threads of a spec, in Spec.                  *)
(***************************************************************************)
\* the step in which thread t executes the statement at position l
Executes(t, l) == pc[t] = l /\ pc'[t] # l

\* every thread of the spec has taken its ostart_ts and the iend_ts of its
\* last pass, and has incremented the stop barrier
AllInnerEnded ==
    \A u \in SpecThreads :
        /\ pc[u] \in AfterStopInc
        /\ passes[u] = WARMUP + 1

\* ostart_ts and iend_ts are read while the stop barrier is not broken,
\* oend_ts while it is, every thread having made its increment; and the
\* barrier of a spec, once broken, stays broken
SeparatedByLastIncrement ==
    /\ \A t \in Threads :
          /\ (Executes(t, "ostart_ts") \/ Executes(t, "iend_ts")) =>
                ~is_broken(stop)
          /\ Executes(t, "oend_ts") => (is_broken(stop) /\ AllInnerEnded)
    /\ (si' = si /\ mpc # "head" /\ is_broken(stop)) => is_broken(stop')

\* C38: for every spec, with or without the start barrier, every thread's
\* ostart_ts and iend_ts precede the last increment of the stop barrier and
\* every thread's oend_ts follows it: the outer intervals of the threads
\* share an instant, and every final inner interval ends before any outer
\* interval ends.
C38_OuterIntervalsShareAnInstant == [][SeparatedByLastIncrement]_vars

\* without the start barrier, one thread of a two-thread spec has taken its
\* oend_ts while the other, the last to increment, is still polling
C38_Witness ==
    /\ arg_nobarrier
    /\ \E t, u \in SpecThreads :
          /\ pc[t] \in {"stats", "end_ts", "aperf", "done"}
          /\ pc[u] = "drain_chk"
          /\ is_broken(stop)


(***************************************************************************)
(* C39: the overlap value of get_overlap3 (avx-turbo.cpp 593-598)          *)
(***************************************************************************)
\* nc_outer and nc_inner are what get_overlap3 passes for a spec of
\* N >= 2 threads
FromOrchestrator ==
    /\ Len(nc_outer) >= 2
    /\ Len(nc_inner) = Len(nc_outer)
    /\ \A i \in DOMAIN nc_outer :
          /\ nc_outer[i][1] <= nc_inner[i][1]
          /\ nc_inner[i][1] < nc_inner[i][2]
          /\ nc_inner[i][2] <= nc_outer[i][2]
    /\ \A i, j \in DOMAIN nc_outer :
          /\ nc_outer[i][1] <= nc_outer[j][2]
          /\ nc_inner[i][2] <= nc_outer[j][2]

\* C39: for the outer and inner intervals get_overlap3 passes for a spec of
\* N >= 2 threads (one outer and one inner interval per thread, the inner
\* one within the outer one of its thread, inner total > 0) nested_concurrency
\* returns a pair with inner_total <= weighted_sum <= N x inner_total, and
\* nconc_ratio returns a value in [0,1].
C39_Overlap3InUnitRange ==
    FromOrchestrator =>
        /\ InnerTotal > 0
        /\ nc_ret # NotCalled =>
              /\ nc_ret.kind = "ret"
              /\ nc_ret.val = <<WeightedSum, InnerTotal>>
              /\ nc_ret.val[2] <= nc_ret.val[1]
              /\ nc_ret.val[1] <= Len(nc_outer) * nc_ret.val[2]
        /\ nc_ratio # NotCalled =>
              /\ nc_ratio.kind = "ret"
              /\ ~IsNaN(nc_ratio.val)
              /\ FLeq(ToDouble(0), nc_ratio.val)
              /\ FLeq(nc_ratio.val, ToDouble(1))

\* three threads, two of them with equal stamps, the third one's inner
\* interval partly alone: a value strictly between 0 and 1 is returned
C39_Witness ==
    /\ FromOrchestrator
    /\ Len(nc_outer) = 3
    /\ nc_outer[1] = nc_outer[2]
    /\ nc_inner[1] = nc_inner[2]
    /\ nc_ret.kind = "ret"
    /\ nc_ratio.kind = "ret"
    /\ ~FLeq(nc_ratio.val, ToDouble(0))
    /\ ~FLeq(ToDouble(1), nc_ratio.val)
    /\ ~cn_ndebug

\* the bounds are reached: threads whose inner intervals never meet the
\* outer interval of another thread give 0, equal intervals give 1
Overlap3Extremes ==
    (FromOrchestrator /\ nc_ratio # NotCalled) =>
        /\ (WeightedSum = InnerTotal) => nc_ratio = Returned(ToDouble(0))
        /\ (WeightedSum = Len(nc_outer) * InnerTotal)
              => nc_ratio = Returned(ToDouble(1))

====
